---- MODULE Spec2Model ----
(***************************************************************************)
(* Model of the sseer server-sent-events parser: the line tokenizer        *)
(* (parser.rs), the event builder and the byte-chunk adapters              *)
(* (event_stream.rs, event_stream/generic.rs, event_stream/bytes.rs).      *)
(* Byte strings are sequences of numbers 0..255; an Option<T> is a         *)
(* sequence of length <= 1.  The specifications Spec, SpecBuilder,         *)
(* SpecParser, SpecSeeded and SpecBytes drive different parts of the crate *)
(* over the same variables.                                                *)
(***************************************************************************)
EXTENDS Integers, Sequences, FiniteSets, TLC

VARIABLES
    variant,    \* what is driven: the "generic", "legacy" or "bytes" adapter,
                \* the "builder" alone or the "parser" alone
    input,      \* every byte the upstream will deliver, in order
    cuts,       \* stream offsets at which this upstream may end a chunk
    pos,        \* number of input bytes the upstream has handed out so far
    eofSent,    \* the upstream has produced its end-of-stream item
    errs,       \* number of transport errors the upstream has produced
    ready,      \* upstream items that are ready and not yet pulled
    es,         \* the adapter: buffer, builder, state, last_event_id
    out,        \* the Ready results of the polls so far, in order
    log         \* history: every line the tokenizer took out of the buffer

vars == <<variant, input, cuts, pos, eofSent, errs, ready, es, out, log>>

(***************************************************************************)
(* Bounds of the model.                                                    *)
(***************************************************************************)
MaxReady == 1
MaxErrs == 1
MaxEndPolls == 2
MaxBlocks == 2
MaxLines == 5
MaxInput == 5
MaxConnects == 2
MaxChars == 2
MaxItems == 5
MaxEvents == 2

(***************************************************************************)
(* constants.rs                                                            *)
(***************************************************************************)
LF == 10
CR == 13
BOM == <<239, 187, 191>>
EMPTY_STR == <<>>
MESSAGE_STR == <<109, 101, 115, 115, 97, 103, 101>>

COLON == 58
SPACE == 32
NUL == 0

B_event == <<101, 118, 101, 110, 116>>
B_data == <<100, 97, 116, 97>>
B_id == <<105, 100>>
B_retry == <<114, 101, 116, 114, 121>>

None == <<>>
Some(x) == <<x>>

\* bytes[from..] with a 0-based start offset
SliceFrom(bytes, from) == SubSeq(bytes, from + 1, Len(bytes))
\* bytes[..to] with a 0-based exclusive end offset
SliceTo(bytes, to) == SubSeq(bytes, 1, to)

\* the slice starts_with method
StartsWith(bytes, prefix) ==
    /\ Len(bytes) >= Len(prefix)
    /\ SubSeq(bytes, 1, Len(prefix)) = prefix

\* memchr::memchr2 and memchr::memchr: 0-based offset of the first match
memchr_set(needles, bytes) ==
    LET first(hits) ==
            IF hits = {} THEN None
            ELSE Some((CHOOSE i \in hits : \A j \in hits : i <= j) - 1)
    IN  first({i \in 1..Len(bytes) : bytes[i] \in needles})

(***************************************************************************)
(* core::str::from_utf8, as a yes/no answer                                *)
(***************************************************************************)
IsCont(b) == b \in 128..191

RECURSIVE from_utf8_ok(_)
from_utf8_ok(b) ==
    IF b = <<>> THEN TRUE
    ELSE IF b[1] < 128 THEN from_utf8_ok(SliceFrom(b, 1))
    ELSE IF b[1] \in 194..223
         THEN Len(b) >= 2 /\ IsCont(b[2]) /\ from_utf8_ok(SliceFrom(b, 2))
    ELSE IF b[1] \in 224..239
         THEN /\ Len(b) >= 3
              /\ b[2] \in (IF b[1] = 224 THEN 160..191
                           ELSE IF b[1] = 237 THEN 128..159 ELSE 128..191)
              /\ IsCont(b[3])
              /\ from_utf8_ok(SliceFrom(b, 3))
    ELSE IF b[1] \in 240..244
         THEN /\ Len(b) >= 4
              /\ b[2] \in (IF b[1] = 240 THEN 144..191
                           ELSE IF b[1] = 244 THEN 128..143 ELSE 128..191)
              /\ IsCont(b[3])
              /\ IsCont(b[4])
              /\ from_utf8_ok(SliceFrom(b, 4))
    ELSE FALSE

(***************************************************************************)
(* str::parse::<u64>: an optional '+', then one or more ASCII digits, and  *)
(* the number must fit 64 bits.  The number is kept as its decimal digits  *)
(* without leading zeros.                                                  *)
(***************************************************************************)
U64_MAX_DIGITS == <<1, 8, 4, 4, 6, 7, 4, 4, 0, 7, 3, 7, 0, 9, 5, 5, 1, 6, 1, 5>>

RECURSIVE StripZeros(_)
StripZeros(ds) ==
    IF Len(ds) > 1 /\ ds[1] = 0 THEN StripZeros(Tail(ds)) ELSE ds

RECURSIVE DigitsLeq(_, _)
DigitsLeq(a, b) ==
    IF a = <<>> THEN TRUE
    ELSE IF a[1] # b[1] THEN a[1] < b[1]
    ELSE DigitsLeq(Tail(a), Tail(b))

parse_u64(s) ==
    LET fits(ds) ==
            IF Len(ds) > Len(U64_MAX_DIGITS) THEN None
            ELSE IF Len(ds) = Len(U64_MAX_DIGITS) /\ ~DigitsLeq(ds, U64_MAX_DIGITS)
                 THEN None
            ELSE Some(ds)
        digits(body) ==
            IF body = <<>> \/ \E i \in 1..Len(body) : body[i] \notin 48..57
            THEN None
            ELSE fits(StripZeros([i \in 1..Len(body) |-> body[i] - 48]))
    IN  digits(IF s # <<>> /\ s[1] = 43 THEN Tail(s) ELSE s)

(***************************************************************************)
(* parser.rs                                                               *)
(***************************************************************************)
\* find_eol that does not wait after a CR at the end of the slice
find_eol_eager(bytes) ==
    LET at(m) ==
            IF m = None THEN None
            ELSE IF m[1] + 1 < Len(bytes)
                    /\ bytes[m[1] + 1] = CR /\ bytes[m[1] + 2] = LF
                 THEN Some(<<m[1], m[1] + 2>>)
            ELSE Some(<<m[1], m[1] + 1>>)
    IN  at(memchr_set({CR, LF}, bytes))

\* find_eol that ends a line at a CR without looking for the LF of a CR LF
find_eol_lone_cr(bytes) ==
    LET at(m) ==
            IF m = None THEN None
            ELSE IF bytes[m[1] + 1] = LF THEN Some(<<m[1], m[1] + 1>>)
            ELSE IF m[1] + 1 >= Len(bytes) THEN None
            ELSE Some(<<m[1], m[1] + 1>>)
    IN  at(memchr_set({CR, LF}, bytes))

\* None, or Some(<<line_end, rem_start>>) as 0-based offsets
find_eol(bytes) ==
    LET at(m) ==
            IF m = None THEN None
            ELSE IF bytes[m[1] + 1] = LF THEN Some(<<m[1], m[1] + 1>>)
            ELSE IF m[1] + 1 >= Len(bytes) THEN None
            ELSE IF bytes[m[1] + 2] = LF THEN Some(<<m[1], m[1] + 2>>)
            ELSE Some(<<m[1], m[1] + 1>>)
    IN  at(memchr_set({CR, LF}, bytes))

RawComment == [kind |-> "Comment", field_name |-> <<>>, field_value |-> None]
RawEmpty == [kind |-> "Empty", field_name |-> <<>>, field_value |-> None]
RawField(n, v) == [kind |-> "Field", field_name |-> n, field_value |-> v]

\* a value that starts after every space that follows the colon
value_start_all_spaces(line, colon_pos) ==
    colon_pos + 1 + Cardinality({i \in (colon_pos + 2)..Len(line) :
                                    \A j \in (colon_pos + 2)..i : line[j] = SPACE})

\* where the value starts: one space after the colon is skipped
value_start(line, colon_pos) ==
    IF colon_pos + 1 < Len(line) /\ line[colon_pos + 2] = SPACE
    THEN colon_pos + 2
    ELSE colon_pos + 1

\* None, or Some([line, buffer]) where buffer is what is left behind
parse_line_from_buffer(buffer) ==
    LET classify(line, colon) ==
            IF line = <<>> THEN RawEmpty
            ELSE IF colon = None THEN RawField(line, None)
            ELSE IF colon[1] = 0 THEN RawComment
            ELSE RawField(SliceTo(line, colon[1]),
                          Some(SliceFrom(line, value_start(line, colon[1]))))
        read(line, rest) ==
            Some([line |-> classify(line, memchr_set({COLON}, line)),
                  buffer |-> rest])
        split(eol) ==
            IF eol = None THEN None
            ELSE read(SliceTo(buffer, eol[1][1]), SliceFrom(buffer, eol[1][2]))
    IN  split(find_eol(buffer))

\* the same tokenizer over a shared Bytes
parse_line_from_bytes(buffer) ==
    LET classify(line, colon) ==
            IF line = <<>> THEN RawEmpty
            ELSE IF colon = None THEN RawField(line, None)
            ELSE IF colon[1] = 0 THEN RawComment
            ELSE RawField(SliceTo(line, colon[1]),
                          Some(SliceFrom(line, value_start(line, colon[1]))))
        read(line, rest) ==
            Some([line |-> classify(line, memchr_set({COLON}, line)),
                  buffer |-> rest])
        split(eol) ==
            IF eol = None THEN None
            ELSE read(SliceTo(buffer, eol[1][1]), SliceFrom(buffer, eol[1][2]))
    IN  split(find_eol(buffer))

\* None, or Some(<<line, remainder>>)
split_at_next_eol(bytes) ==
    LET split(eol) ==
            IF eol = None THEN None
            ELSE Some(<<SliceTo(bytes, eol[1][1]), SliceFrom(bytes, eol[1][2])>>)
    IN  split(find_eol(bytes))

\* read_line that keeps the space after the colon in the value
read_line_keeps_space(bytes) ==
    LET at(colon) ==
            IF colon # None
            THEN IF colon[1] = 0 THEN RawComment
                 ELSE RawField(SliceTo(bytes, colon[1]),
                               Some(SliceFrom(bytes, colon[1] + 1)))
            ELSE IF bytes = <<>> THEN RawEmpty
            ELSE RawField(bytes, None)
    IN  at(memchr_set({COLON}, bytes))

read_line(bytes) ==
    LET at(colon) ==
            IF colon # None
            THEN IF colon[1] = 0 THEN RawComment
                 ELSE RawField(SliceTo(bytes, colon[1]),
                               Some(IF colon[1] + 1 < Len(bytes)
                                       /\ bytes[colon[1] + 2] = SPACE
                                    THEN SliceFrom(bytes, colon[1] + 2)
                                    ELSE SliceFrom(bytes, colon[1] + 1)))
            ELSE IF bytes = <<>> THEN RawEmpty
            ELSE RawField(bytes, None)
    IN  at(memchr_set({COLON}, bytes))

\* None, or Some([line, buffer]) where buffer is the rest of the slice
parse_line(bytes) ==
    LET read(s) ==
            IF s = None THEN None
            ELSE Some([line |-> read_line(s[1][1]), buffer |-> s[1][2]])
    IN  read(split_at_next_eol(bytes))

FieldName(name) ==
    IF name = B_event THEN "Event"
    ELSE IF name = B_data THEN "Data"
    ELSE IF name = B_id THEN "Id"
    ELSE IF name = B_retry THEN "Retry"
    ELSE "Ignored"

\* [ok, line]: ok is FALSE for the Utf8Error result
validate(raw) ==
    IF raw.kind # "Field" THEN [ok |-> TRUE, line |-> raw]
    ELSE IF raw.field_value # None /\ ~from_utf8_ok(raw.field_value[1])
         THEN [ok |-> FALSE, line |-> raw]
    ELSE [ok |-> TRUE,
          line |-> RawField(FieldName(raw.field_name), raw.field_value)]

(***************************************************************************)
(* event_stream.rs: EventBuilder                                           *)
(***************************************************************************)
EventBuilderDefault ==
    [event |-> EMPTY_STR, id |-> EMPTY_STR, data_buffer |-> <<>>,
     retry |-> None, is_complete |-> FALSE]

\* the Event arm in which a line without a value clears the event type
add_event_none_clears(b, field_value) ==
    [b EXCEPT !.event = IF field_value # None THEN field_value[1] ELSE EMPTY_STR]

\* the arms of add for the Event field, with and without a value
add_event(b, field_value) ==
    IF field_value # None THEN [b EXCEPT !.event = field_value[1]] ELSE b

\* the Data arm that counts a line only when it carries a value
add_data_needs_value(b, field_value) ==
    IF field_value # None
    THEN [b EXCEPT !.data_buffer = @ \o field_value[1] \o <<LF>>]
    ELSE b

\* the arm of add for the Data field
add_data(b, field_value) ==
    [b EXCEPT !.data_buffer =
        (IF field_value # None THEN @ \o field_value[1] ELSE @) \o <<LF>>]

\* an Id arm in which an id line with an empty value leaves the id alone
add_id_keeps_on_empty(b, field_value) ==
    IF field_value = None \/ field_value[1] = <<>> THEN b
    ELSE IF memchr_set({NUL}, field_value[1]) = None
    THEN [b EXCEPT !.id = field_value[1]]
    ELSE b

\* the arm of add for the Id field
add_id(b, field_value) ==
    IF field_value = None \/ memchr_set({NUL}, field_value[1]) = None
    THEN [b EXCEPT !.id = IF field_value # None THEN field_value[1] ELSE EMPTY_STR]
    ELSE b

\* the arm of add for the Retry field
add_retry(b, field_value) ==
    LET set(val) == IF val # None THEN [b EXCEPT !.retry = val] ELSE b
    IN  IF field_value # None THEN set(parse_u64(field_value[1])) ELSE b

\* an add whose Comment arm throws the data read so far away
add_comment_clears_data(b, line) ==
    IF line.kind = "Empty" THEN [b EXCEPT !.is_complete = TRUE]
    ELSE IF line.kind = "Comment" THEN [b EXCEPT !.data_buffer = <<>>]
    ELSE IF line.field_name = "Event" THEN add_event(b, line.field_value)
    ELSE IF line.field_name = "Data" THEN add_data(b, line.field_value)
    ELSE IF line.field_name = "Id" THEN add_id(b, line.field_value)
    ELSE IF line.field_name = "Retry" THEN add_retry(b, line.field_value)
    ELSE b

add(b, line) ==
    IF line.kind = "Empty" THEN [b EXCEPT !.is_complete = TRUE]
    ELSE IF line.kind = "Comment" THEN b
    ELSE IF line.field_name = "Event" THEN add_event(b, line.field_value)
    ELSE IF line.field_name = "Data" THEN add_data(b, line.field_value)
    ELSE IF line.field_name = "Id" THEN add_id(b, line.field_value)
    ELSE IF line.field_name = "Retry" THEN add_retry(b, line.field_value)
    ELSE b

\* taking the builder without putting the id back
take_keeps_nothing(b) == EventBuilderDefault

\* what dispatch leaves in self: mem::take, then the id is put back
take_keeps_id(b) == [EventBuilderDefault EXCEPT !.id = b.id]

\* the data buffer frozen as it is
freeze_keeps_lf(data_buffer) == data_buffer

\* the data buffer frozen without any of the LFs at its end
RECURSIVE freeze_trims_all(_)
freeze_trims_all(data_buffer) ==
    IF data_buffer # <<>> /\ data_buffer[Len(data_buffer)] = LF
    THEN freeze_trims_all(SliceTo(data_buffer, Len(data_buffer) - 1))
    ELSE data_buffer

\* the data of the event: the non-empty data buffer less one final LF
freeze_data(data_buffer) ==
    IF data_buffer[Len(data_buffer)] = LF
    THEN SliceTo(data_buffer, Len(data_buffer) - 1)
    ELSE data_buffer

\* a dispatch that resets the builder only when it returns an event
dispatch_resets_on_event(b) ==
    IF b.data_buffer = <<>>
    THEN [builder |-> [b EXCEPT !.is_complete = FALSE], event |-> None]
    ELSE [builder |-> take_keeps_id(b),
          event |-> Some([event |-> IF b.event = <<>> THEN MESSAGE_STR ELSE b.event,
                          data |-> freeze_data(b.data_buffer),
                          id |-> b.id,
                          retry |-> b.retry])]

\* [builder, event]: event is None or Some(Event)
dispatch(b) ==
    IF b.data_buffer = <<>> THEN [builder |-> take_keeps_id(b), event |-> None]
    ELSE [builder |-> take_keeps_id(b),
          event |-> Some([event |-> IF b.event = <<>> THEN MESSAGE_STR ELSE b.event,
                          data |-> freeze_data(b.data_buffer),
                          id |-> b.id,
                          retry |-> b.retry])]

(***************************************************************************)
(* event_stream.rs: parse_event and the try_parse_event_buffer macro.      *)
(* Results: Ok(None) is "NoEvent", Ok(Some(e)) is "Event", Err is          *)
(* "Utf8Error".  lines is the history of what the tokenizer consumed:      *)
(* raw (the bytes taken from the buffer, terminator included), the raw     *)
(* line, and fed (the line was valid and was handed to EventBuilder::add). *)
(***************************************************************************)
Parsed(buffer, builder, t, e, lines) ==
    [buffer |-> buffer, builder |-> builder,
     res |-> [type |-> t, event |-> e], lines |-> lines]

RECURSIVE parse_event_loop(_, _, _)
parse_event_loop(buffer, builder, lines) ==
    LET dispatched(rest, d, lines1) ==
            IF d.event # None
            THEN Parsed(rest, d.builder, "Event", d.event, lines1)
            ELSE parse_event_loop(rest, d.builder, lines1)
        added(rest, b1, lines1) ==
            IF b1.is_complete THEN dispatched(rest, dispatch(b1), lines1)
            ELSE parse_event_loop(rest, b1, lines1)
        validated(p, v, lines1) ==
            IF ~v.ok THEN Parsed(p.buffer, builder, "Utf8Error", None, lines1)
            ELSE added(p.buffer, add(builder, v.line), lines1)
        checked(p, v) ==
            validated(p, v,
                      Append(lines,
                             [raw |-> SliceTo(buffer, Len(buffer) - Len(p.buffer)),
                              line |-> p.line, fed |-> v.ok]))
        tokenized(p) ==
            IF p = None THEN Parsed(buffer, builder, "NoEvent", None, lines)
            ELSE checked(p[1], validate(p[1].line))
    IN  tokenized(parse_line_from_buffer(buffer))

\* parse_event that goes on after an event and returns the last one the
\* buffer completes
parse_event_keeps_last(buffer, builder) ==
    LET again(r, r2) == IF r2.res.type = "Event" THEN r2 ELSE r
        first(r) ==
            IF r.res.type = "Event"
            THEN again(r, parse_event_loop(r.buffer, r.builder, r.lines))
            ELSE r
    IN  IF buffer = <<>> THEN Parsed(buffer, builder, "NoEvent", None, <<>>)
        ELSE first(parse_event_loop(buffer, builder, <<>>))

\* parse_event that gives up the block it was building on a UTF-8 error
parse_event_error_resets(buffer, builder) ==
    LET reset(r) ==
            IF r.res.type = "Utf8Error"
            THEN [r EXCEPT !.builder = EventBuilderDefault] ELSE r
    IN  IF buffer = <<>> THEN Parsed(buffer, builder, "NoEvent", None, <<>>)
        ELSE reset(parse_event_loop(buffer, builder, <<>>))

\* parse_event that returns an event and leaves its lines in the buffer
parse_event_leaves_lines(buffer, builder) ==
    LET left(r) ==
            IF r.res.type = "Event" THEN [r EXCEPT !.buffer = buffer] ELSE r
    IN  IF buffer = <<>> THEN Parsed(buffer, builder, "NoEvent", None, <<>>)
        ELSE left(parse_event_loop(buffer, builder, <<>>))

parse_event(buffer, builder) ==
    IF buffer = <<>> THEN Parsed(buffer, builder, "NoEvent", None, <<>>)
    ELSE parse_event_loop(buffer, builder, <<>>)

\* the macro with last_event_id following only events that carry an id
try_parse_keeps_last_id(this) ==
    LET tried(r) ==
            IF r.res.type = "Event"
            THEN [es |-> [this EXCEPT
                             !.buffer = r.buffer,
                             !.builder = r.builder,
                             !.state = IF @ = "NotStarted" THEN "Started" ELSE @,
                             !.last_event_id = IF r.res.event[1].id = <<>> THEN @
                                               ELSE r.res.event[1].id],
                  ret |-> TRUE, res |-> r.res, lines |-> r.lines]
            ELSE [es |-> [this EXCEPT !.buffer = r.buffer, !.builder = r.builder],
                  ret |-> r.res.type = "Utf8Error", res |-> r.res, lines |-> r.lines]
    IN  tried(parse_event(this.buffer, this.builder))

\* ret: the macro returned from poll_next with Poll::Ready(res)
try_parse_event_buffer(this) ==
    LET tried(r) ==
            IF r.res.type = "Event"
            THEN [es |-> [this EXCEPT
                             !.buffer = r.buffer,
                             !.builder = r.builder,
                             !.state = IF @ = "NotStarted" THEN "Started" ELSE @,
                             !.last_event_id = r.res.event[1].id],
                  ret |-> TRUE, res |-> r.res, lines |-> r.lines]
            ELSE [es |-> [this EXCEPT !.buffer = r.buffer, !.builder = r.builder],
                  ret |-> r.res.type = "Utf8Error", res |-> r.res, lines |-> r.lines]
    IN  tried(parse_event(this.buffer, this.builder))

EventStreamNew ==
    [buffer |-> <<>>, builder |-> EventBuilderDefault,
     state |-> "NotStarted", last_event_id |-> EMPTY_STR]

(***************************************************************************)
(* Upstream items and poll results                                         *)
(***************************************************************************)
ChunkItem(b) == [kind |-> "Chunk", bytes |-> b, e |-> 0]
ErrItem(n) == [kind |-> "Err", bytes |-> <<>>, e |-> n]
EofItem == [kind |-> "Eof", bytes |-> <<>>, e |-> 0]

\* what one call of poll_next hands back: the adapter afterwards, the
\* Poll value, how many upstream items it pulled, and the lines it tokenized
Polled(s, t, ev, e, used, lines) ==
    [es |-> s, res |-> [type |-> t, event |-> ev, e |-> e],
     used |-> used, lines |-> lines]

\* an upstream error that ends the stream and drops what was buffered
transport_error_gives_up(this, e, used, lines) ==
    Polled([this EXCEPT !.state = "Terminated", !.buffer = <<>>],
           "Transport", None, e, used, lines)

\* the Some(Err(e)) arm: the error goes out wrapped, nothing else happens
transport_error(this, e, used, lines) ==
    Polled(this, "Transport", None, e, used, lines)

\* an EOF arm that flushes but does not terminate
AtEof_stays_open(this, used, lines) ==
    LET flushed(t) ==
            Polled(t.es, IF t.ret THEN t.res.type ELSE "End", t.res.event, 0,
                   used, lines \o t.lines)
    IN  flushed(try_parse_event_buffer(
            [this EXCEPT !.buffer = IF @ # <<>> /\ @[Len(@)] = CR
                                    THEN Append(@, LF) ELSE @]))

\* an EOF arm that closes whatever line is left open
AtEof_flushes_tail(this, used, lines) ==
    LET flushed(t) ==
            Polled(t.es, IF t.ret THEN t.res.type ELSE "End", t.res.event, 0,
                   used, lines \o t.lines)
    IN  flushed(try_parse_event_buffer(
            [this EXCEPT !.state = "Terminated",
                         !.buffer = IF @ # <<>> THEN Append(@, LF) ELSE @]))

\* the EOF arm: terminate, complete a trailing CR, flush once
AtEof(this, used, lines) ==
    LET flushed(t) ==
            Polled(t.es, IF t.ret THEN t.res.type ELSE "End", t.res.event, 0,
                   used, lines \o t.lines)
    IN  flushed(try_parse_event_buffer(
            [this EXCEPT !.state = "Terminated",
                         !.buffer = IF @ # <<>> /\ @[Len(@)] = CR
                                    THEN Append(@, LF) ELSE @]))

(***************************************************************************)
(* event_stream/generic.rs: EventStream::poll_next.  ups is the sequence   *)
(* of upstream items that are ready; when it runs out the upstream answers *)
(* Pending.                                                                *)
(***************************************************************************)
starts_with_bom(buffer) ==
    IF Len(buffer) >= Len(BOM) THEN Some(StartsWith(buffer, BOM))
    ELSE IF Len(buffer) >= 1 /\ StartsWith(BOM, buffer) THEN None
    ELSE Some(FALSE)

RECURSIVE generic_poll_loop(_, _, _, _)
generic_poll_loop(this, ups, used, lines) ==
    LET parsed(t) ==
            IF t.ret
            THEN Polled(t.es, t.res.type, t.res.event, 0, used + 1, lines \o t.lines)
            ELSE generic_poll_loop(t.es, ups, used + 1, lines \o t.lines)
        extended(this1, bom) ==
            IF this1.state = "NotStarted" /\ bom = None
            THEN generic_poll_loop(this1, ups, used + 1, lines)
            ELSE parsed(try_parse_event_buffer(
                     IF this1.state # "NotStarted" THEN this1
                     ELSE IF bom = Some(TRUE)
                          THEN [this1 EXCEPT !.state = "Started",
                                             !.buffer = SliceFrom(@, Len(BOM))]
                     ELSE [this1 EXCEPT !.state = "Started"]))
        pulled(item) ==
            IF item.kind = "Err"
            THEN transport_error(this, item.e, used + 1, lines)
            ELSE IF item.kind = "Eof" THEN AtEof(this, used + 1, lines)
            ELSE IF item.bytes = <<>>
                 THEN generic_poll_loop(this, ups, used + 1, lines)
            ELSE extended([this EXCEPT !.buffer = @ \o item.bytes],
                          starts_with_bom(this.buffer \o item.bytes))
    IN  IF used >= Len(ups) THEN Polled(this, "Pending", None, 0, used, lines)
        ELSE pulled(ups[used + 1])

\* poll_next that asks the upstream before it looks into its buffer
generic_poll_next_pulls_first(this, ups) ==
    IF this.state = "Terminated"
    THEN Polled(this, "End", None, 0, 0, <<>>)
    ELSE generic_poll_loop(this, ups, 0, <<>>)

generic_poll_next(this, ups) ==
    LET drained(t) ==
            IF t.ret THEN Polled(t.es, t.res.type, t.res.event, 0, 0, t.lines)
            ELSE IF t.es.state = "Terminated"
            THEN Polled(t.es, "End", None, 0, 0, t.lines)
            ELSE generic_poll_loop(t.es, ups, 0, t.lines)
    IN  drained(try_parse_event_buffer(this))

(***************************************************************************)
(* event_stream.rs: EventStream::poll_next, with its own BOM check         *)
(***************************************************************************)
\* the BOM check done as soon as the buffer holds a byte
bom_check_eager(this) ==
    IF this.state = "NotStarted" /\ Len(this.buffer) >= 1
    THEN [this EXCEPT !.state = "Started",
                      !.buffer = IF StartsWith(@, BOM)
                                 THEN SliceFrom(@, Len(BOM)) ELSE @]
    ELSE this

\* the BOM check done on every chunk, whatever the state
bom_check_any_state(this) ==
    IF Len(this.buffer) >= Len(BOM)
    THEN [this EXCEPT !.state = IF @ = "NotStarted" THEN "Started" ELSE @,
                      !.buffer = IF StartsWith(@, BOM)
                                 THEN SliceFrom(@, Len(BOM)) ELSE @]
    ELSE this

bom_check(this) ==
    IF this.state = "NotStarted" /\ Len(this.buffer) >= Len(BOM)
    THEN [this EXCEPT !.state = "Started",
                      !.buffer = IF StartsWith(@, BOM)
                                 THEN SliceFrom(@, Len(BOM)) ELSE @]
    ELSE this

RECURSIVE poll_loop(_, _, _, _)
poll_loop(this, ups, used, lines) ==
    LET parsed(t) ==
            IF t.ret
            THEN Polled(t.es, t.res.type, t.res.event, 0, used + 1, lines \o t.lines)
            ELSE poll_loop(t.es, ups, used + 1, lines \o t.lines)
        pulled(item) ==
            IF item.kind = "Err"
            THEN transport_error(this, item.e, used + 1, lines)
            ELSE IF item.kind = "Eof" THEN AtEof(this, used + 1, lines)
            ELSE IF item.bytes = <<>> THEN poll_loop(this, ups, used + 1, lines)
            ELSE parsed(try_parse_event_buffer(
                     bom_check([this EXCEPT !.buffer = @ \o item.bytes])))
    IN  IF used >= Len(ups) THEN Polled(this, "Pending", None, 0, used, lines)
        ELSE pulled(ups[used + 1])

poll_next(this, ups) ==
    LET drained(t) ==
            IF t.ret THEN Polled(t.es, t.res.type, t.res.event, 0, 0, t.lines)
            ELSE IF t.es.state = "Terminated"
            THEN Polled(t.es, "End", None, 0, 0, t.lines)
            ELSE poll_loop(t.es, ups, 0, t.lines)
    IN  drained(try_parse_event_buffer(this))

(***************************************************************************)
(* The inputs of the model.  Lines are given as bytes; a block is a run of *)
(* lines closed by an empty line.                                          *)
(***************************************************************************)
Ln(bytes) == bytes \o <<LF>>
L_data == Ln(B_data)                                    \* "data"
L_data_x == Ln(B_data \o <<COLON, 120>>)                \* "data:x"
L_data_bad == Ln(B_data \o <<COLON, 255>>)              \* "data:" and a byte that is not UTF-8
L_id_1 == Ln(B_id \o <<COLON, 49>>)                     \* "id:1"
L_id == Ln(B_id)                                        \* "id"
L_id_nul == Ln(B_id \o <<COLON, 50, NUL>>)              \* "id:2" and a NUL byte
L_event_e == Ln(B_event \o <<COLON, 101>>)              \* "event:e"
L_event_f == Ln(B_event \o <<COLON, 102>>)              \* "event:f"
L_event_colon == Ln(B_event \o <<COLON>>)               \* "event:"
L_event == Ln(B_event)                                  \* "event"
L_retry_7 == Ln(B_retry \o <<COLON, 55>>)               \* "retry:7"
L_empty == <<LF>>

\* the blocks inputs are built from: between them they hold an empty block,
\* data lines with and without a value, every kind of id line, event lines
\* with a value, with an empty value and without a colon, a retry line and
\* a value that is not UTF-8
Blocks ==
    { L_empty,
      L_data \o L_empty,
      L_data_x \o L_data \o L_empty,
      L_id_1 \o L_empty,
      L_id \o L_event_f \o L_event_e \o L_event \o L_data_x \o L_empty,
      L_id_nul \o L_event_e \o L_event_colon \o L_data \o L_empty,
      L_retry_7 \o L_data_bad \o L_data \o L_empty }

LineEnds(bytes) == {k \in 1..Len(bytes) : bytes[k] = LF}

\* the upstream may end a chunk of a block after its first line and after
\* its last
BlockCuts(block) ==
    {Len(block)} \cup {k \in LineEnds(block) : \A j \in LineEnds(block) : k <= j}

\* up to n blocks one after the other, with the offsets where a chunk may end
RECURSIVE BlockInputs(_)
BlockInputs(n) ==
    IF n = 0 THEN {[input |-> <<>>, cuts |-> {0}]}
    ELSE LET shorter == BlockInputs(n - 1)
         IN  shorter \cup
             {[input |-> i.input \o b,
               cuts |-> i.cuts \cup {Len(i.input) + k : k \in BlockCuts(b)}] :
                 i \in shorter, b \in Blocks}

\* inputs about the byte order mark, the three terminators and a codepoint
\* of two bytes
Terminators == {<<LF>>, <<CR>>, <<CR, LF>>}
Heads ==
    { <<>>, BOM, <<239>>, <<239, 187>>, <<239, 187, 120>>,
      <<LF>> \o BOM, <<COLON, LF>> \o BOM, BOM \o BOM }
Bodies ==
    {B_data \o t1 \o t2 : t1 \in Terminators, t2 \in Terminators \cup {<<>>}}
        \cup {<<>>, B_data \o <<COLON, 195, 169, LF, LF>>}
ByteInputs == {h \o b : h \in Heads, b \in Bodies}

Cases ==
    BlockInputs(MaxBlocks)
        \cup {[input |-> i, cuts |-> 0..Len(i)] : i \in ByteInputs}

(***************************************************************************)
(* The state machine                                                       *)
(***************************************************************************)
Variants == {"generic", "legacy"}

Init ==
    /\ variant \in Variants
    /\ \E c \in Cases : input = c.input /\ cuts = c.cuts
    /\ pos = 0
    /\ eofSent = FALSE
    /\ errs = 0
    /\ ready = <<>>
    /\ es = EventStreamNew
    /\ out = <<>>
    /\ log = <<>>

\* the upstream makes its next chunk ready (possibly an empty one)
DeliverChunk ==
    /\ ~eofSent
    /\ Len(ready) < MaxReady
    /\ \E q \in cuts \cup {pos} :
          /\ q >= pos
          /\ ready' = Append(ready, ChunkItem(SubSeq(input, pos + 1, q)))
          /\ pos' = q
    /\ UNCHANGED <<variant, input, cuts, eofSent, errs, es, out, log>>

\* the upstream fails once more; nothing keeps an upstream from doing so
\* after it has reported its end
DeliverErr ==
    /\ Len(ready) < MaxReady
    /\ errs < MaxErrs
    /\ errs' = errs + 1
    /\ ready' = Append(ready, ErrItem(errs + 1))
    /\ UNCHANGED <<variant, input, cuts, pos, eofSent, es, out, log>>

\* the upstream ends after its last byte
DeliverEof ==
    /\ ~eofSent
    /\ Len(ready) < MaxReady
    /\ pos = Len(input)
    /\ eofSent' = TRUE
    /\ ready' = Append(ready, EofItem)
    /\ UNCHANGED <<variant, input, cuts, pos, errs, es, out, log>>

EndCount == Cardinality({i \in 1..Len(out) : out[i].type = "End"})

\* the caller sees the result of one poll_next call
Observe(r) ==
    /\ es' = r.es
    /\ ready' = SubSeq(ready, r.used + 1, Len(ready))
    /\ log' = log \o r.lines
    /\ out' = IF r.res.type = "Pending" THEN out
              ELSE Append(out, [type |-> r.res.type, event |-> r.res.event,
                                e |-> r.res.e, at |-> Len(log) + Len(r.lines)])
    /\ UNCHANGED <<variant, input, cuts, pos, eofSent, errs>>

PollGeneric ==
    /\ variant = "generic"
    /\ EndCount < MaxEndPolls
    /\ Observe(generic_poll_next(es, ready))

PollLegacy ==
    /\ variant = "legacy"
    /\ EndCount < MaxEndPolls
    /\ Observe(poll_next(es, ready))

Next ==
    \/ DeliverChunk
    \/ DeliverErr
    \/ DeliverEof
    \/ PollGeneric
    \/ PollLegacy

Spec == Init /\ [][Next]_vars

(***************************************************************************)
(* Vocabulary of the properties                                            *)
(***************************************************************************)
\* polling an adapter until it reports the end of the stream
PollOf(v, this, ups) ==
    IF v = "generic" THEN generic_poll_next(this, ups) ELSE poll_next(this, ups)

RECURSIVE PollToEnd(_, _, _, _)
PollToEnd(v, this, ups, acc) ==
    LET polled(r) ==
            IF r.res.type \in {"End", "Pending"} THEN acc
            ELSE PollToEnd(v, r.es, SubSeq(ups, r.used + 1, Len(ups)),
                           Append(acc, r.res))
    IN  polled(PollOf(v, this, ups))

\* the events among a sequence of poll results
RECURSIVE EventsOf(_)
EventsOf(results) ==
    IF results = <<>> THEN <<>>
    ELSE IF results[1].type = "Event"
         THEN <<results[1].event[1]>> \o EventsOf(Tail(results))
         ELSE EventsOf(Tail(results))

\* the adapter has reported the end of the stream
Ended == out # <<>> /\ out[Len(out)].type = "End"

\* the bytes the adapter has pulled from upstream so far
RECURSIVE BytesOf(_)
BytesOf(items) ==
    IF items = <<>> THEN <<>> ELSE items[1].bytes \o BytesOf(Tail(items))

Received == SliceTo(input, pos - Len(BytesOf(ready)))

\* the upstream's end-of-stream item has been pulled
EofPulled == eofSent /\ \A i \in 1..Len(ready) : ready[i].kind # "Eof"

\* the bytes the tokenizer has taken out of the buffer so far
RECURSIVE RawOf(_)
RawOf(lines) ==
    IF lines = <<>> THEN <<>> ELSE lines[1].raw \o RawOf(Tail(lines))

Last(bytes) == bytes[Len(bytes)]
EndsWith(bytes, suffix) ==
    /\ Len(bytes) >= Len(suffix)
    /\ SubSeq(bytes, Len(bytes) - Len(suffix) + 1, Len(bytes)) = suffix

\* lines of the history that reached the builder
IsEmptyLine(l) == l.fed /\ l.line.kind = "Empty"
IsFieldLine(l, name) ==
    l.fed /\ l.line.kind = "Field" /\ l.line.field_name = name
ValueOf(l) ==
    IF l.line.field_value = None THEN <<>> ELSE l.line.field_value[1]
HasValue(l) == l.line.field_value # None

\* the block closed by the empty line at history position p: the lines
\* after the previous empty line
BlockStart(p) ==
    LET before == {q \in 1..(p - 1) : IsEmptyLine(log[q])}
    IN  IF before = {} THEN 1
        ELSE (CHOOSE q \in before : \A r \in before : r <= q) + 1
Block(p) == SubSeq(log, BlockStart(p), p - 1)
FieldLines(lines, name) == SelectSeq(lines, LAMBDA l : IsFieldLine(l, name))

RECURSIVE Join(_)
Join(lines) ==
    IF lines = <<>> THEN <<>>
    ELSE IF Len(lines) = 1 THEN ValueOf(lines[1])
    ELSE ValueOf(lines[1]) \o <<LF>> \o Join(Tail(lines))

EventIdx == {k \in 1..Len(out) : out[k].type = "Event"}
Ev(k) == out[k].event[1]
\* empty lines of the history whose block holds a data line
DispatchPoints ==
    {p \in 1..Len(log) :
        IsEmptyLine(log[p]) /\ FieldLines(Block(p), B_data) # <<>>}

(***************************************************************************)
(* C1.  Chunk-boundary invariance: once the adapter has reported the end   *)
(* of the stream, the events it returned are the events returned when the  *)
(* same input is fed as one chunk followed by EOF.                         *)
(***************************************************************************)
C1_ChunkBoundaryInvariance ==
    Ended =>
        EventsOf(out) =
            EventsOf(PollToEnd(variant, EventStreamNew,
                               <<ChunkItem(input), EofItem>>, <<>>))

(***************************************************************************)
(* C2.  Every event is returned by a poll of its own, in the order of the  *)
(* empty lines that close the blocks: the k-th returned event stands at    *)
(* the k-th dispatching empty line of the history and carries the data of  *)
(* that block, and no dispatching empty line is left without its event.    *)
(***************************************************************************)
C2_EventsInInputOrder ==
    /\ \A k \in EventIdx :
          /\ out[k].at \in DispatchPoints
          /\ Cardinality({j \in EventIdx : j <= k})
                = Cardinality({p \in DispatchPoints : p <= out[k].at})
          /\ Ev(k).data = Join(FieldLines(Block(out[k].at), B_data))
    /\ Cardinality(EventIdx) = Cardinality(DispatchPoints)

\* a poll has returned an event and the buffer still holds a further
\* complete event that arrived with it
W_C2 ==
    /\ EventIdx # {}
    /\ parse_event(es.buffer, es.builder).res.type = "Event"

(***************************************************************************)
(* C3.  The only bytes the adapter ever removes from the stream are the    *)
(* three BOM bytes at stream offset 0: what the tokenizer has consumed     *)
(* followed by the buffer is the received input, less a BOM at offset 0    *)
(* once the adapter has started (plus the LF put after a trailing CR at    *)
(* EOF).                                                                   *)
(***************************************************************************)
C3_BomOnlyAtOffsetZero ==
    LET logical == IF es.state # "NotStarted" /\ StartsWith(Received, BOM)
                   THEN SliceFrom(Received, Len(BOM)) ELSE Received
        closed == IF EofPulled /\ logical # <<>> /\ Last(logical) = CR
                  THEN Append(logical, LF) ELSE logical
    IN  RawOf(log) \o es.buffer = closed

(***************************************************************************)
(* C4.  As long as the bytes received are one or two bytes that are a      *)
(* strict prefix of the BOM (and upstream has not ended), the adapter      *)
(* stays NotStarted, the buffer holds exactly those bytes, no line has     *)
(* been tokenized and the builder is untouched.                            *)
(***************************************************************************)
C4_BomPrefixWaits ==
    (Len(Received) \in 1..2 /\ StartsWith(BOM, Received) /\ ~EofPulled) =>
        /\ es.state = "NotStarted"
        /\ es.buffer = Received
        /\ log = <<>>
        /\ es.builder = EventBuilderDefault

\* a poll has pulled the first two BOM bytes and nothing else
W_C4 ==
    /\ es.buffer = <<239, 187>>
    /\ es.state = "NotStarted"
    /\ ~EofPulled

(***************************************************************************)
(* C5.  Before EOF a CR that is the last received byte is still the last   *)
(* byte of the buffer (it has ended no line); a line is ended by a lone CR *)
(* only when the byte after it is there and is not LF; at EOF a buffer     *)
(* ending in CR is closed by CR LF and drained.                            *)
(***************************************************************************)
C5_TrailingCr ==
    /\ (~EofPulled /\ Received # <<>> /\ Last(Received) = CR) =>
          (es.buffer # <<>> /\ Last(es.buffer) = CR)
    /\ \A i \in 1..Len(log) :
          Last(log[i].raw) = CR =>
              LET after == RawOf(SubSeq(log, i + 1, Len(log))) \o es.buffer
              IN  after # <<>> /\ after[1] # LF
    /\ (EofPulled /\ Received # <<>> /\ Last(Received) = CR) =>
          /\ EndsWith(RawOf(log) \o es.buffer, <<CR, LF>>)
          /\ Ended => (es.buffer = <<>> /\ EndsWith(log[Len(log)].raw, <<CR, LF>>))

\* a poll has left a line with a trailing CR in the buffer, waiting
W_C5 ==
    /\ ~EofPulled
    /\ es.buffer = B_data \o <<CR>>

(***************************************************************************)
(* C6.  An empty line yields an event exactly when its block holds at      *)
(* least one data line (with or without a value); every event stands at    *)
(* an empty line.                                                          *)
(***************************************************************************)
C6_DispatchIffData ==
    /\ \A k \in EventIdx : out[k].at \in 1..Len(log) /\ IsEmptyLine(log[out[k].at])
    /\ \A p \in 1..Len(log) :
          IsEmptyLine(log[p]) =>
              ((\E k \in EventIdx : out[k].at = p)
                  <=> FieldLines(Block(p), B_data) # <<>>)

\* one empty line has produced an event and another one has not
W_C6 ==
    /\ EventIdx # {}
    /\ \E p \in 1..Len(log) :
          IsEmptyLine(log[p]) /\ \A k \in EventIdx : out[k].at # p

(***************************************************************************)
(* C7.  The data of an event is the values of the data lines of its block  *)
(* in order, with one LF between consecutive lines and nothing after the   *)
(* last.                                                                   *)
(***************************************************************************)
C7_DataJoinedByLf ==
    \A k \in EventIdx :
        Ev(k).data = Join(FieldLines(Block(out[k].at), B_data))

\* an event built from two data lines
W_C7 ==
    \E k \in EventIdx : Len(FieldLines(Block(out[k].at), B_data)) >= 2

(***************************************************************************)
(* C8.  As stated: the data of an event never ends with LF.                *)
(***************************************************************************)
C8_NoTrailingLf ==
    \A k \in EventIdx : Ev(k).data = <<>> \/ Last(Ev(k).data) # LF

(***************************************************************************)
(* C8, amended.  The data of an event ends with LF exactly when its block  *)
(* has two or more data lines and the last of them has an empty value.     *)
(***************************************************************************)
C8_TrailingLfOnlyFromEmptyLastLine ==
    \A k \in EventIdx :
        LET lines == FieldLines(Block(out[k].at), B_data)
        IN  (Ev(k).data # <<>> /\ Last(Ev(k).data) = LF)
                <=> (Len(lines) >= 2 /\ ValueOf(lines[Len(lines)]) = <<>>)

\* an event whose data ends with LF
W_C8 ==
    \E k \in EventIdx : Ev(k).data # <<>> /\ Last(Ev(k).data) = LF

(***************************************************************************)
(* C9.  As stated: the event field is the value of the last event line     *)
(* with a non-empty value in the block, and "message" without such a line. *)
(***************************************************************************)
C9_LastNonEmptyEventLine ==
    \A k \in EventIdx :
        LET named == SelectSeq(FieldLines(Block(out[k].at), B_event),
                               LAMBDA l : ValueOf(l) # <<>>)
        IN  /\ Ev(k).event # <<>>
            /\ Ev(k).event = IF named = <<>> THEN MESSAGE_STR
                             ELSE ValueOf(named[Len(named)])

(***************************************************************************)
(* C9, amended.  The event field is non-empty: it is the value of the last *)
(* event line of the block that carries a value (a colon) when that value  *)
(* is non-empty, and "message" when that value is empty or the block has   *)
(* no such line; an event line without a colon changes nothing.            *)
(***************************************************************************)
C9_LastEventLineWithValue ==
    \A k \in EventIdx :
        LET valued == SelectSeq(FieldLines(Block(out[k].at), B_event), HasValue)
        IN  /\ Ev(k).event # <<>>
            /\ Ev(k).event =
                  IF valued = <<>> \/ ValueOf(valued[Len(valued)]) = <<>>
                  THEN MESSAGE_STR
                  ELSE ValueOf(valued[Len(valued)])

\* an event of a block in which a named event line is followed by an
\* event line without a colon
W_C9 ==
    \E k \in EventIdx :
        LET lines == FieldLines(Block(out[k].at), B_event)
        IN  /\ Len(lines) >= 2
            /\ ValueOf(lines[1]) # <<>>
            /\ ~HasValue(lines[Len(lines)])

(***************************************************************************)
(* C10.  The id of an event is the value of the most recent id line of the *)
(* whole history whose value holds no NUL byte (the empty string for an id *)
(* line without a value), and the empty string when there is none.         *)
(***************************************************************************)
LastValidId(p) ==
    LET valid == {q \in 1..p : IsFieldLine(log[q], B_id)
                               /\ \A i \in 1..Len(ValueOf(log[q])) :
                                     ValueOf(log[q])[i] # NUL}
    IN  IF valid = {} THEN EMPTY_STR
        ELSE ValueOf(log[CHOOSE q \in valid : \A r \in valid : r <= q])

C10_StickyId ==
    \A k \in EventIdx : Ev(k).id = LastValidId(out[k].at)

\* an event that carries a non-empty id set before its own block, with an
\* id line holding a NUL byte in between
W_C10 ==
    \E k \in EventIdx :
        /\ Ev(k).id # <<>>
        /\ FieldLines(SubSeq(log, 1, BlockStart(out[k].at) - 1), B_id) # <<>>
        /\ \E q \in BlockStart(out[k].at)..out[k].at :
              IsFieldLine(log[q], B_id) /\ Ev(k).id # ValueOf(log[q])

(***************************************************************************)
(* The event builder on its own, driven the way the loop of parse_event    *)
(* drives it: a raw line is validated and added, and a builder that is     *)
(* complete is dispatched before the next line.  Here pos counts the lines *)
(* handed over, log holds the line handed over last, and out holds the     *)
(* events and UTF-8 errors so far.                                         *)
(***************************************************************************)
Digits(s) == [i \in 1..Len(s) |-> s[i] + 48]
V_max == Digits(U64_MAX_DIGITS)                          \* 18446744073709551615
V_over == Digits(SliceTo(U64_MAX_DIGITS, 19) \o <<6>>)   \* 18446744073709551616

\* values of retry lines: None for a line without a colon
RetryValues ==
    { None, Some(<<>>), Some(<<55>>), Some(<<48, 48, 55>>), Some(<<43, 53>>),
      Some(<<45, 53>>), Some(<<53, SPACE>>), Some(<<53, 120>>),
      Some(V_max), Some(V_over) }

\* names that are no field of the format, case variants among them
OtherNames == {<<68, 97, 116, 97>>, <<73, 68>>, <<102, 111, 111>>, <<82, 101, 116, 114, 121>>}

BuilderLines ==
    {RawEmpty, RawComment}
        \cup {RawField(B_data, v) : v \in {None, Some(<<>>), Some(<<120>>), Some(<<255>>)}}
        \cup {RawField(B_event, v) : v \in {None, Some(<<>>), Some(<<101>>)}}
        \cup {RawField(B_id, v) : v \in {None, Some(<<49>>), Some(<<50, NUL>>)}}
        \cup {RawField(B_retry, v) : v \in RetryValues}
        \cup {RawField(n, v) : n \in OtherNames,
                               v \in {None, Some(<<55>>), Some(<<255>>)}}

InitBuilder ==
    /\ variant = "builder"
    /\ input = <<>>
    /\ cuts = {}
    /\ pos = 0
    /\ eofSent = FALSE
    /\ errs = 0
    /\ ready = <<>>
    /\ es = EventStreamNew
    /\ out = <<>>
    /\ log = <<>>

\* parse_event: the next line is validated and, when valid, added
BuilderAdd ==
    /\ ~es.builder.is_complete
    /\ pos < MaxLines
    /\ \E raw \in BuilderLines :
          LET valid(v) ==
                  /\ es' = IF v.ok THEN [es EXCEPT !.builder = add(@, v.line)] ELSE es
                  /\ log' = <<[raw |-> <<>>, line |-> raw, fed |-> v.ok]>>
                  /\ out' = IF v.ok THEN out
                            ELSE Append(out, [type |-> "Utf8Error", event |-> None,
                                              e |-> 0, at |-> pos + 1])
          IN  valid(validate(raw))
    /\ pos' = pos + 1
    /\ UNCHANGED <<variant, input, cuts, eofSent, errs, ready>>

\* parse_event: a complete builder is dispatched
BuilderDispatch ==
    /\ es.builder.is_complete
    /\ LET done(d) ==
               /\ es' = [es EXCEPT !.builder = d.builder]
               /\ out' = IF d.event = None THEN out
                         ELSE Append(out, [type |-> "Event", event |-> d.event,
                                           e |-> 0, at |-> pos])
       IN  done(dispatch(es.builder))
    /\ UNCHANGED <<variant, input, cuts, pos, eofSent, errs, ready, log>>

NextBuilder ==
    \/ BuilderAdd
    \/ BuilderDispatch

SpecBuilder == InitBuilder /\ [][NextBuilder]_vars

\* the line handed to the builder last
Fed == log[1].line
FedNow == pos' = pos + 1

(***************************************************************************)
(* C11.  A dispatch, whether it returns an event or not, leaves the        *)
(* builder as it is after construction except for the id, which is the id  *)
(* from before the dispatch: event type empty, data buffer empty, retry    *)
(* unset, is_complete false.                                               *)
(***************************************************************************)
C11_DispatchResets ==
    [][es.builder.is_complete =>
          es'.builder = [EventBuilderDefault EXCEPT !.id = es.builder.id]]_vars

\* an event has been returned with its id kept in the builder, and a
\* dispatch is due for a block that set a retry value but has no data line
W_C11 ==
    /\ es.builder.is_complete
    /\ es.builder.data_buffer = <<>>
    /\ es.builder.retry # None
    /\ es.builder.id # <<>>
    /\ \E k \in 1..Len(out) : out[k].type = "Event" /\ out[k].event[1].id = es.builder.id

(***************************************************************************)
(* C12.  A retry line sets the retry of the builder to its value exactly   *)
(* when the value is a non-empty string of ASCII digits whose number fits  *)
(* 64 bits; any other retry line (a sign, a space, a letter, an empty or   *)
(* missing value, a number too large) leaves the builder as it was and     *)
(* gives no error.                                                         *)
(***************************************************************************)
AllDigits(v) == v # <<>> /\ \A i \in 1..Len(v) : v[i] \in 48..57
NumberOf(v) == StripZeros([i \in 1..Len(v) |-> v[i] - 48])
FitsU64(v) ==
    \/ Len(NumberOf(v)) < Len(U64_MAX_DIGITS)
    \/ Len(NumberOf(v)) = Len(U64_MAX_DIGITS) /\ DigitsLeq(NumberOf(v), U64_MAX_DIGITS)

C12_RetryOnlyDigits ==
    [][(FedNow /\ log'[1].line.field_name = B_retry) =>
          LET v == log'[1].line.field_value
          IN  /\ out' = out
              /\ es'.builder =
                    IF v # None /\ AllDigits(v[1]) /\ FitsU64(v[1])
                    THEN [es.builder EXCEPT !.retry = Some(NumberOf(v[1]))]
                    ELSE es.builder]_vars

(***************************************************************************)
(* C20.  A field line whose name is not exactly event, data, id or retry   *)
(* has no effect whatever its value: handing it over gives no error and    *)
(* leaves every field of the builder as it was.                            *)
(***************************************************************************)
KnownNames == {B_event, B_data, B_id, B_retry}

C20_OtherNamesIgnored ==
    [][(FedNow /\ log'[1].line.kind = "Field"
               /\ log'[1].line.field_name \notin KnownNames) =>
          (out' = out /\ es'.builder = es.builder)]_vars

(***************************************************************************)
(* The tokenizer on its own.  The input is any byte string over line       *)
(* terminators, the colon, the space and a letter.  parse_line_from_buffer *)
(* is applied to a buffer that starts as the input, and its lines go to    *)
(* log; parse_line is applied to the slice of the input from pos on, and   *)
(* its lines go to out.                                                    *)
(***************************************************************************)
ParserBytes == {LF, CR, COLON, SPACE, 97}

RECURSIVE ParserInputs(_)
ParserInputs(n) ==
    IF n = 0 THEN {<<>>}
    ELSE LET shorter == ParserInputs(n - 1)
         IN  shorter \cup {Append(i, b) : i \in shorter, b \in ParserBytes}

InitParser ==
    /\ variant = "parser"
    /\ input \in ParserInputs(MaxInput)
    /\ cuts = {}
    /\ pos = 0
    /\ eofSent = FALSE
    /\ errs = 0
    /\ ready = <<>>
    /\ es = [EventStreamNew EXCEPT !.buffer = input]
    /\ out = <<>>
    /\ log = <<>>

\* parse_line_from_buffer takes the next line out of the buffer
TokenizeBuffer ==
    /\ LET taken(p) ==
               /\ p # None
               /\ es' = [es EXCEPT !.buffer = p[1].buffer]
               /\ log' = Append(log,
                                [raw |-> SliceTo(es.buffer,
                                                 Len(es.buffer) - Len(p[1].buffer)),
                                 line |-> p[1].line, fed |-> FALSE])
       IN  taken(parse_line_from_buffer(es.buffer))
    /\ UNCHANGED <<variant, input, cuts, pos, eofSent, errs, ready, out>>

\* parse_line reads the next line of the slice
TokenizeSlice ==
    /\ LET taken(p) ==
               /\ p # None
               /\ pos' = Len(input) - Len(p[1].buffer)
               /\ out' = Append(out,
                                [type |-> "Line",
                                 raw |-> SubSeq(input, pos + 1,
                                                Len(input) - Len(p[1].buffer)),
                                 line |-> p[1].line])
       IN  taken(parse_line(SliceFrom(input, pos)))
    /\ UNCHANGED <<variant, input, cuts, eofSent, errs, ready, es, log>>

NextParser ==
    \/ TokenizeBuffer
    \/ TokenizeSlice

SpecParser == InitParser /\ [][NextParser]_vars

\* 1-based position of the first CR or LF of a byte string, 0 without one
EolAt(b) ==
    LET eols == {i \in 1..Len(b) : b[i] \in {CR, LF}}
    IN  IF eols = {} THEN 0 ELSE CHOOSE i \in eols : \A j \in eols : i <= j
\* the bytes of a line before its terminator
BodyOf(raw) == SubSeq(raw, 1, EolAt(raw) - 1)
\* no line can be ended yet: no CR and no LF, or the first of them is a CR
\* that is the last byte
Waiting(b) == EolAt(b) = 0 \/ (b[EolAt(b)] = CR /\ EolAt(b) = Len(b))
\* raw is one line with its terminator, given the bytes that follow it
TokenOk(raw, after) ==
    /\ EolAt(raw) > 0
    /\ raw[EolAt(raw)] = LF => Len(raw) = EolAt(raw)
    /\ raw[EolAt(raw)] = CR =>
          IF Len(raw) = EolAt(raw) THEN after # <<>> /\ after[1] # LF
          ELSE Len(raw) = EolAt(raw) + 1 /\ raw[Len(raw)] = LF
\* the line holds nothing but bytes of the body
LineWithin(line, body) ==
    IF line.kind = "Empty" THEN body = <<>>
    ELSE IF line.kind = "Comment" THEN body # <<>> /\ body[1] = COLON
    ELSE IF line.field_value = None THEN line.field_name = body
    ELSE /\ StartsWith(body, Append(line.field_name, COLON))
         /\ EndsWith(body, line.field_value[1])
\* the lines of a history, each against what follows it in the input
LinesOk(lines) ==
    \A k \in 1..Len(lines) :
        /\ TokenOk(lines[k].raw, SliceFrom(input, Len(RawOf(SubSeq(lines, 1, k)))))
        /\ LineWithin(lines[k].line, BodyOf(lines[k].raw))

(***************************************************************************)
(* C18.  The tokenizer ends a line at the first CR or LF: an LF takes one  *)
(* byte, a CR followed by LF takes two, a CR followed by another byte      *)
(* takes one; the line leaves the terminator out and no input byte is      *)
(* lost.  find_eol, parse_line and parse_line_from_buffer return None      *)
(* exactly when there is no CR or LF, or the first of them is a CR that is *)
(* the last byte.                                                          *)
(***************************************************************************)
C18_LineTerminators ==
    /\ RawOf(log) \o es.buffer = input
    /\ RawOf(out) = SliceTo(input, pos)
    /\ LinesOk(log)
    /\ LinesOk(out)
    /\ (parse_line_from_buffer(es.buffer) = None) <=> Waiting(es.buffer)
    /\ (find_eol(es.buffer) = None) <=> Waiting(es.buffer)
    /\ (parse_line(SliceFrom(input, pos)) = None) <=> Waiting(SliceFrom(input, pos))

\* both tokenizers have read a line ended by CR LF and one ended by a lone
\* CR, and wait at a CR that is the last byte
W_C18 ==
    /\ Len(log) = 2 /\ Len(out) = 2
    /\ log[1].raw = <<CR, LF>> /\ out[1].raw = <<CR, LF>>
    /\ log[2].raw = <<CR>> /\ out[2].raw = <<CR>>
    /\ es.buffer = <<97, CR>>

(***************************************************************************)
(* C19.  A line without bytes is Empty; a line whose first byte is a colon *)
(* is a Comment; a line without a colon is a Field without a value; any    *)
(* other line is a Field whose name is the bytes before the first colon    *)
(* and whose value is the bytes after it, less one leading space.          *)
(***************************************************************************)
Classify(body) ==
    LET colons == {i \in 1..Len(body) : body[i] = COLON}
        c == CHOOSE i \in colons : \A j \in colons : i <= j
        after == SubSeq(body, c + 1, Len(body))
    IN  IF body = <<>> THEN RawEmpty
        ELSE IF body[1] = COLON THEN RawComment
        ELSE IF colons = {} THEN RawField(body, None)
        ELSE RawField(SubSeq(body, 1, c - 1),
                      Some(IF after # <<>> /\ after[1] = SPACE
                           THEN Tail(after) ELSE after))

C19_LineClassification ==
    /\ \A k \in 1..Len(log) : log[k].line = Classify(BodyOf(log[k].raw))
    /\ \A k \in 1..Len(out) : out[k].line = Classify(BodyOf(out[k].raw))

\* both tokenizers have read a field whose value keeps the second of two
\* spaces after the colon
W_C19 ==
    /\ log # <<>> /\ log[1].line = RawField(<<97>>, Some(<<SPACE>>))
    /\ out # <<>> /\ out[1].line = RawField(<<97>>, Some(<<SPACE>>))

(***************************************************************************)
(* C13.  A field value that is not UTF-8 gives exactly one Utf8Error, from *)
(* the poll that tokenized the line, and the line is out of the buffer for *)
(* good: the k-th error stands at the k-th rejected line of the history,   *)
(* and the history rejects no more lines than the input has bad ones (all  *)
(* of them once the stream has ended).  The builder holds what the         *)
(* accepted lines before it built.  The poll leaves last_event_id alone    *)
(* and changes the state only as a chunk or the end of the upstream does.  *)
(***************************************************************************)
RECURSIVE Replay(_, _)
Replay(lines, b) ==
    IF lines = <<>> THEN b
    ELSE IF ~lines[1].fed THEN Replay(Tail(lines), b)
    ELSE LET b1 == add(b, validate(lines[1].line).line)
         IN  Replay(Tail(lines), IF b1.is_complete THEN dispatch(b1).builder ELSE b1)

Utf8Idx == {k \in 1..Len(out) : out[k].type = "Utf8Error"}
Rejected == {p \in 1..Len(log) : ~log[p].fed}
BadLines == Cardinality({i \in 1..Len(input) : input[i] = 255})

C13_State ==
    /\ \A k \in Utf8Idx :
          /\ out[k].at \in Rejected
          /\ Cardinality({j \in Utf8Idx : j <= k})
                = Cardinality({p \in Rejected : p <= out[k].at})
    /\ Cardinality(Utf8Idx) = Cardinality(Rejected)
    /\ Cardinality(Rejected) <= BadLines
    /\ Ended => Cardinality(Rejected) = BadLines
    /\ es.builder = Replay(log, EventBuilderDefault)

C13_Step ==
    (Len(out') = Len(out) + 1 /\ out'[Len(out')].type = "Utf8Error") =>
        /\ es'.last_event_id = es.last_event_id
        /\ ready' = ready => es'.state = es.state
        /\ es'.state = "Terminated" => EofPulled'
        /\ es'.state = "NotStarted" => es.state = "NotStarted"

C13_Utf8ErrorIsLocal == []C13_State /\ [][C13_Step]_vars

\* after an error, a later poll has returned the event of the block the bad
\* line stood in, with the retry value set before the bad line
W_C13 ==
    \E k \in Utf8Idx : \E j \in EventIdx :
        /\ k < j
        /\ BlockStart(out[j].at) < out[k].at
        /\ Ev(j).retry # None

(***************************************************************************)
(* C14.  A poll that pulls an upstream error e returns Transport(e) and    *)
(* leaves the adapter exactly as a poll without that item leaves it: the   *)
(* buffer, builder, state and last_event_id are what the items pulled      *)
(* before the error made them, and the adapter is not Terminated.          *)
(***************************************************************************)
C14_TransportErrorPassesThrough ==
    [][(Len(out') = Len(out) + 1 /\ out'[Len(out')].type = "Transport") =>
          LET used == Len(ready) - Len(ready')
              before == PollOf(variant, es, SubSeq(ready, 1, used - 1))
          IN  /\ used >= 1
              /\ ready[used].kind = "Err"
              /\ out'[Len(out')].e = ready[used].e
              /\ before.res.type = "Pending"
              /\ es' = before.es
              /\ es'.state # "Terminated"
              /\ used = 1 /\ parse_event(es.buffer, es.builder).lines = <<>>
                    => es' = es]_vars

\* an error came while a block was half read, and a later poll returned the
\* event of that block
W_C14 ==
    \E k \in 1..Len(out) : \E j \in EventIdx :
        /\ out[k].type = "Transport"
        /\ k < j
        /\ BlockStart(out[j].at) <= out[k].at
        /\ out[k].at < out[j].at

(***************************************************************************)
(* C15.  The adapter is Terminated exactly from the poll that pulled the   *)
(* upstream's end on, and stays so.  A Terminated adapter pulls nothing    *)
(* from the upstream, whatever the upstream offers; each of its polls      *)
(* returns one event or UTF-8 error of the final flush, or the end of the  *)
(* stream, and after the first end of the stream every result is the end   *)
(* of the stream.                                                          *)
(***************************************************************************)
C15_State ==
    /\ EofPulled <=> es.state = "Terminated"
    /\ \A i, j \in 1..Len(out) :
          (i < j /\ out[i].type = "End") => out[j].type = "End"
    /\ Ended => parse_event(es.buffer, es.builder).res.type = "NoEvent"

C15_Step ==
    es.state = "Terminated" =>
        /\ es'.state = "Terminated"
        /\ Len(ready') >= Len(ready) /\ SubSeq(ready', 1, Len(ready)) = ready
        /\ out' # out =>
              /\ Len(out') = Len(out) + 1
              /\ out'[Len(out')].type \in {"Event", "Utf8Error", "End"}
        /\ out' = out => (es' = es /\ log' = log)

C15_TerminatedForEver == []C15_State /\ [][C15_Step]_vars

\* the final flush returned an event for a line closed by the LF put after
\* a trailing CR, two more polls returned the end of the stream, and an
\* item the upstream offered after its end is still not pulled
W_C15 ==
    /\ ready # <<>>
    /\ Len(out) = 3
    /\ out[1].type = "Event" /\ out[1].at = Len(log)
    /\ log[Len(log)].raw = <<CR, LF>>
    /\ out[2].type = "End" /\ out[3].type = "End"

(***************************************************************************)
(* The generic adapter with set_last_event_id: the owner may seed the id   *)
(* of a fresh adapter before the first poll.  The call is written to out   *)
(* as an entry of type "Seed".                                             *)
(***************************************************************************)
Seeds == {<<57>>}

InitSeeded ==
    /\ variant = "generic"
    /\ \E c \in BlockInputs(MaxBlocks) : input = c.input /\ cuts = c.cuts
    /\ pos = 0
    /\ eofSent = FALSE
    /\ errs = 0
    /\ ready = <<>>
    /\ es = EventStreamNew
    /\ out = <<>>
    /\ log = <<>>

SetLastEventId ==
    /\ es = EventStreamNew
    /\ pos = 0 /\ ready = <<>> /\ out = <<>> /\ errs = 0 /\ ~eofSent
    /\ \E id \in Seeds :
          /\ es' = [es EXCEPT !.last_event_id = id]
          /\ out' = <<[type |-> "Seed", event |-> None, e |-> 0, at |-> 0, id |-> id]>>
    /\ UNCHANGED <<variant, input, cuts, pos, eofSent, errs, ready, log>>

NextSeeded ==
    \/ SetLastEventId
    \/ DeliverChunk
    \/ DeliverErr
    \/ DeliverEof
    \/ PollGeneric

SpecSeeded == InitSeeded /\ [][NextSeeded]_vars

(***************************************************************************)
(* C16.  last_event_id is the id of the event returned last, whatever was  *)
(* seeded and whether or not the event's block had an id line; before the  *)
(* first event it is the seeded value, or the empty string when nothing    *)
(* was seeded.  Errors, Pending and the end of the stream do not touch it. *)
(***************************************************************************)
C16_LastEventId ==
    es.last_event_id =
        IF EventIdx # {}
        THEN Ev(CHOOSE k \in EventIdx : \A j \in EventIdx : j <= k).id
        ELSE IF out # <<>> /\ out[1].type = "Seed" THEN out[1].id
        ELSE EMPTY_STR

\* an id was seeded, an event without any id line was returned and a UTF-8
\* error after it
W_C16 ==
    /\ Len(out) >= 3
    /\ out[1].type = "Seed" /\ out[1].id # <<>>
    /\ out[2].type = "Event" /\ Ev(2).id = <<>>
    /\ out[Len(out)].type = "Utf8Error"
    /\ es.last_event_id = <<>>

(***************************************************************************)
(* event_stream/bytes.rs: EventStreamBytes, the adapter for chunks that    *)
(* are shared Bytes.  Next to the buffer it holds a remainder, the current *)
(* chunk as it came.                                                       *)
(***************************************************************************)
RECURSIVE parse_event_bytes_loop(_, _, _)
parse_event_bytes_loop(bytes, builder, lines) ==
    LET dispatched(rest, d, lines1) ==
            IF d.event # None
            THEN Parsed(rest, d.builder, "Event", d.event, lines1)
            ELSE parse_event_bytes_loop(rest, d.builder, lines1)
        added(rest, b1, lines1) ==
            IF b1.is_complete THEN dispatched(rest, dispatch(b1), lines1)
            ELSE parse_event_bytes_loop(rest, b1, lines1)
        validated(p, v, lines1) ==
            IF ~v.ok THEN Parsed(p.buffer, builder, "Utf8Error", None, lines1)
            ELSE added(p.buffer, add(builder, v.line), lines1)
        checked(p, v) ==
            validated(p, v,
                      Append(lines,
                             [raw |-> SliceTo(bytes, Len(bytes) - Len(p.buffer)),
                              line |-> p.line, fed |-> v.ok]))
        tokenized(p) ==
            IF p = None THEN Parsed(bytes, builder, "NoEvent", None, lines)
            ELSE checked(p[1], validate(p[1].line))
    IN  tokenized(parse_line_from_bytes(bytes))

parse_event_bytes(bytes, builder) ==
    IF bytes = <<>> THEN Parsed(bytes, builder, "NoEvent", None, <<>>)
    ELSE parse_event_bytes_loop(bytes, builder, <<>>)

\* the macro with an incomplete rest of the remainder thrown away
try_parse_remainder_drops_rest(this) ==
    LET tried(r) ==
            IF r.res.type = "Event"
            THEN [es |-> [this EXCEPT !.remainder = r.buffer,
                                      !.builder = r.builder,
                                      !.last_event_id = r.res.event[1].id],
                  ret |-> TRUE, res |-> r.res, lines |-> r.lines]
            ELSE IF r.res.type = "Utf8Error"
            THEN [es |-> [this EXCEPT !.remainder = r.buffer, !.builder = r.builder],
                  ret |-> TRUE, res |-> r.res, lines |-> r.lines]
            ELSE [es |-> [this EXCEPT !.remainder = <<>>, !.builder = r.builder],
                  ret |-> FALSE, res |-> r.res, lines |-> r.lines]
    IN  IF this.remainder = <<>>
        THEN [es |-> this, ret |-> FALSE,
              res |-> [type |-> "NoEvent", event |-> None], lines |-> <<>>]
        ELSE tried(parse_event_bytes(this.remainder, this.builder))

\* the macro appending the rest of the remainder to the buffer without
\* emptying the remainder
try_parse_remainder_keeps_remainder(this) ==
    LET tried(r) ==
            IF r.res.type = "Event"
            THEN [es |-> [this EXCEPT !.remainder = r.buffer,
                                      !.builder = r.builder,
                                      !.last_event_id = r.res.event[1].id],
                  ret |-> TRUE, res |-> r.res, lines |-> r.lines]
            ELSE IF r.res.type = "Utf8Error"
            THEN [es |-> [this EXCEPT !.remainder = r.buffer, !.builder = r.builder],
                  ret |-> TRUE, res |-> r.res, lines |-> r.lines]
            ELSE [es |-> [this EXCEPT !.buffer = @ \o r.buffer,
                                      !.remainder = r.buffer,
                                      !.builder = r.builder],
                  ret |-> FALSE, res |-> r.res, lines |-> r.lines]
    IN  IF this.remainder = <<>>
        THEN [es |-> this, ret |-> FALSE,
              res |-> [type |-> "NoEvent", event |-> None], lines |-> <<>>]
        ELSE tried(parse_event_bytes(this.remainder, this.builder))

\* the try_parse_remainder macro; ret: it returned from poll_next
try_parse_remainder(this) ==
    LET tried(r) ==
            IF r.res.type = "Event"
            THEN [es |-> [this EXCEPT !.remainder = r.buffer,
                                      !.builder = r.builder,
                                      !.last_event_id = r.res.event[1].id],
                  ret |-> TRUE, res |-> r.res, lines |-> r.lines]
            ELSE IF r.res.type = "Utf8Error"
            THEN [es |-> [this EXCEPT !.remainder = r.buffer, !.builder = r.builder],
                  ret |-> TRUE, res |-> r.res, lines |-> r.lines]
            ELSE [es |-> [this EXCEPT !.buffer = @ \o r.buffer,
                                      !.remainder = <<>>,
                                      !.builder = r.builder],
                  ret |-> FALSE, res |-> r.res, lines |-> r.lines]
    IN  IF this.remainder = <<>>
        THEN [es |-> this, ret |-> FALSE,
              res |-> [type |-> "NoEvent", event |-> None], lines |-> <<>>]
        ELSE tried(parse_event_bytes(this.remainder, this.builder))

EventStreamBytesNew ==
    [buffer |-> <<>>, remainder |-> <<>>, builder |-> EventBuilderDefault,
     state |-> "NotStarted", last_event_id |-> EMPTY_STR]

RECURSIVE bytes_poll_loop(_, _, _, _)
bytes_poll_loop(this, ups, used, lines) ==
    LET parsed(t) ==
            IF t.ret
            THEN Polled(t.es, t.res.type, t.res.event, 0, used + 1, lines \o t.lines)
            ELSE bytes_poll_loop(t.es, ups, used + 1, lines \o t.lines)
        \* the chunk comes to an adapter that holds no bytes
        fresh(new_bytes, bom) ==
            IF this.state = "NotStarted" /\ bom = None
            THEN bytes_poll_loop([this EXCEPT !.buffer = @ \o new_bytes],
                                 ups, used + 1, lines)
            ELSE parsed(try_parse_remainder(
                     IF this.state # "NotStarted"
                     THEN [this EXCEPT !.remainder = new_bytes]
                     ELSE IF bom = Some(TRUE)
                          THEN [this EXCEPT !.state = "Started",
                                            !.remainder = SliceFrom(new_bytes, Len(BOM))]
                     ELSE [this EXCEPT !.state = "Started",
                                       !.remainder = new_bytes]))
        \* the chunk is put behind the bytes the adapter holds
        extended(this1, bom) ==
            IF this1.state = "NotStarted" /\ bom = None
            THEN bytes_poll_loop(this1, ups, used + 1, lines)
            ELSE parsed(try_parse_event_buffer(
                     IF this1.state # "NotStarted" THEN this1
                     ELSE IF bom = Some(TRUE)
                          THEN [this1 EXCEPT !.state = "Started",
                                             !.buffer = SliceFrom(@, Len(BOM))]
                     ELSE [this1 EXCEPT !.state = "Started"]))
        pulled(item) ==
            IF item.kind = "Err"
            THEN transport_error(this, item.e, used + 1, lines)
            ELSE IF item.kind = "Eof"
                 THEN AtEof([this EXCEPT !.buffer = @ \o this.remainder,
                                         !.remainder = <<>>],
                            used + 1, lines)
            ELSE IF item.bytes = <<>>
                 THEN bytes_poll_loop(this, ups, used + 1, lines)
            ELSE IF this.buffer = <<>> /\ this.remainder = <<>>
                 THEN fresh(item.bytes, starts_with_bom(item.bytes))
            ELSE extended([this EXCEPT !.buffer = @ \o this.remainder \o item.bytes,
                                       !.remainder = <<>>],
                          starts_with_bom(this.buffer \o this.remainder \o item.bytes))
    IN  IF used >= Len(ups) THEN Polled(this, "Pending", None, 0, used, lines)
        ELSE pulled(ups[used + 1])

bytes_poll_next(this, ups) ==
    LET drained(t, lines) ==
            IF t.ret
            THEN Polled(t.es, t.res.type, t.res.event, 0, 0, lines \o t.lines)
            ELSE IF t.es.state = "Terminated"
            THEN Polled(t.es, "End", None, 0, 0, lines \o t.lines)
            ELSE bytes_poll_loop(t.es, ups, 0, lines \o t.lines)
        first(t) ==
            IF t.ret THEN Polled(t.es, t.res.type, t.res.event, 0, 0, t.lines)
            ELSE drained(try_parse_event_buffer(t.es), t.lines)
    IN  first(try_parse_remainder(this))

InitBytes ==
    /\ variant = "bytes"
    /\ \E c \in Cases : input = c.input /\ cuts = c.cuts
    /\ pos = 0
    /\ eofSent = FALSE
    /\ errs = 0
    /\ ready = <<>>
    /\ es = EventStreamBytesNew
    /\ out = <<>>
    /\ log = <<>>

PollBytes ==
    /\ variant = "bytes"
    /\ EndCount < MaxEndPolls
    /\ Observe(bytes_poll_next(es, ready))

NextBytes ==
    \/ DeliverChunk
    \/ DeliverErr
    \/ DeliverEof
    \/ PollBytes

SpecBytes == InitBytes /\ [][NextBytes]_vars

(***************************************************************************)
(* C17.  EventStreamBytes behaves as the generic EventStream whose buffer  *)
(* is the buffer followed by the remainder: a poll of either pulls the     *)
(* same upstream items, tokenizes the same lines, returns the same result  *)
(* and leaves the same bytes, builder, state and last_event_id.  As both   *)
(* start empty, they return the same results for every sequence of items.  *)
(***************************************************************************)
AsGeneric(this) ==
    [buffer |-> this.buffer \o this.remainder, builder |-> this.builder,
     state |-> this.state, last_event_id |-> this.last_event_id]

C17_BytesAsGeneric ==
    [][(es' # es \/ out' # out \/ Len(ready') < Len(ready)) =>
          LET g == generic_poll_next(AsGeneric(es), ready)
          IN  /\ AsGeneric(es') = g.es
              /\ ready' = SubSeq(ready, g.used + 1, Len(ready))
              /\ log' = log \o g.lines
              /\ IF g.res.type = "Pending" THEN out' = out
                 ELSE /\ Len(out') = Len(out) + 1
                      /\ out'[Len(out')].type = g.res.type
                      /\ out'[Len(out')].event = g.res.event
                      /\ out'[Len(out')].e = g.res.e]_vars

\* a chunk was parsed out of the remainder: an event was returned, the rest
\* of the chunk is still in the remainder, and it is not the first result
W_C17 ==
    /\ es.remainder # <<>>
    /\ out # <<>> /\ out[Len(out)].type = "Event"
    /\ Len(out) >= 2

(***************************************************************************)
(* Streams with comment lines: both adapters of Spec over inputs in which  *)
(* a comment stands before, inside and after a block.  The comments hold   *)
(* nothing, a byte that is not UTF-8, the text of a field, and a CR that   *)
(* ends them; the upstream may end a chunk anywhere.                       *)
(***************************************************************************)
CommentLines ==
    { Ln(<<COLON>>),
      Ln(<<COLON, 255>>),
      Ln(<<COLON>> \o B_id \o <<COLON, 51>>),
      <<COLON, SPACE, CR>> }
CommentHeads == {<<>>, L_data_x, L_id_1 \o L_data, L_event_e \o L_retry_7}
CommentTails == {L_empty, L_data \o L_empty, L_data_bad \o L_empty, L_empty \o L_data_x \o L_empty}
CommentInputs ==
    {h \o c \o t : h \in CommentHeads, c \in CommentLines, t \in CommentTails}

InitComments ==
    /\ variant \in Variants
    /\ \E i \in CommentInputs : input = i /\ cuts = 0..Len(i)
    /\ pos = 0
    /\ eofSent = FALSE
    /\ errs = 0
    /\ ready = <<>>
    /\ es = EventStreamNew
    /\ out = <<>>
    /\ log = <<>>

SpecComments == InitComments /\ [][Next]_vars

(***************************************************************************)
(* C21.  A comment line, whatever follows its colon, is never rejected;    *)
(* the builder is what the other lines of the history alone build; and     *)
(* once the stream has ended, the events and UTF-8 errors returned are     *)
(* those returned for the input without its comment lines.                 *)
(***************************************************************************)
IsComment(l) == l.line.kind = "Comment"
NotComment(l) == l.line.kind # "Comment"

\* the input less the lines that start with a colon
RECURSIVE WithoutComments(_)
WithoutComments(bytes) ==
    LET rest(p) ==
            IF p = None THEN bytes
            ELSE IF p[1].line.kind = "Comment" THEN WithoutComments(p[1].buffer)
            ELSE SliceTo(bytes, Len(bytes) - Len(p[1].buffer))
                    \o WithoutComments(p[1].buffer)
    IN  rest(parse_line_from_buffer(bytes))

\* the events and UTF-8 errors among a sequence of poll results
Parses(results) ==
    SelectSeq([i \in 1..Len(results) |->
                  [type |-> results[i].type, event |-> results[i].event]],
              LAMBDA r : r.type \in {"Event", "Utf8Error"})

TailHeads ==
    {<<>>, BOM, L_data_x \o L_empty, L_id_1 \o L_data, BOM \o L_data_x \o L_empty}
TailEnds ==
    { <<>>,
      B_data \o <<COLON, 120>>,           \* "data:x" without a terminator
      L_data \o B_data,                   \* a data line, then "data" without one
      L_data,                             \* a data line without its empty line
      L_empty \o B_id,                    \* a closed block, then "id"
      <<CR>>,
      B_data \o <<CR>>,
      L_data \o <<CR>> }
TailInputs == {h \o t : h \in TailHeads, t \in TailEnds}

InitTails ==
    /\ variant \in Variants
    /\ \E i \in TailInputs : input = i /\ cuts = 0..Len(i)
    /\ pos = 0
    /\ eofSent = FALSE
    /\ errs = 0
    /\ ready = <<>>
    /\ es = EventStreamNew
    /\ out = <<>>
    /\ log = <<>>

SpecTails == InitTails /\ [][Next]_vars

(***************************************************************************)
(* C22.  The bytes the tokenizer has taken followed by the bytes in the    *)
(* buffer are the bytes received (less the byte order mark), plus one LF   *)
(* when the upstream ended behind a CR.  Every tokenized line has its      *)
(* terminator, so the bytes behind the last terminator stay in the buffer  *)
(* and never reach the builder.  Events are returned at empty lines only,  *)
(* one for every empty line that closes a block with data: the fields of   *)
(* a block that has no empty line stay in the builder.                     *)
(***************************************************************************)
WithoutBom(bytes) ==
    IF StartsWith(bytes, BOM) THEN SliceFrom(bytes, Len(BOM)) ELSE bytes

AddedLf ==
    IF es.state = "Terminated" /\ Received # <<>> /\ Last(Received) = CR
    THEN <<LF>> ELSE <<>>

C22_NothingFlushedAtEof ==
    /\ RawOf(log) \o es.buffer
          = (IF es.state = "NotStarted" THEN Received ELSE WithoutBom(Received))
                \o AddedLf
    /\ \A p \in 1..Len(log) : Last(log[p].raw) \in {CR, LF}
    /\ Ended => \A i \in 1..Len(es.buffer) : es.buffer[i] \notin {CR, LF}
    /\ \A k \in EventIdx : out[k].at \in DispatchPoints
    /\ Ended => Cardinality(EventIdx) = Cardinality(DispatchPoints)
    /\ es.builder = Replay(SubSeq(log, BlockStart(Len(log) + 1), Len(log)),
                           [EventBuilderDefault EXCEPT !.id = es.builder.id])

\* the stream has ended; an event was returned before, the data line that
\* came after it is still in the builder and the bytes of the line that
\* had no terminator are still in the buffer
W_C22 ==
    /\ Ended
    /\ EventIdx # {}
    /\ es.builder.data_buffer # <<>>
    /\ es.buffer = B_data

(***************************************************************************)
(* The three adapters over the inputs about the byte order mark, with      *)
(* chunks ending anywhere.                                                 *)
(***************************************************************************)
InitAdapters ==
    /\ variant \in Variants \cup {"bytes"}
    /\ \E i \in ByteInputs : input = i /\ cuts = 0..Len(i)
    /\ pos = 0
    /\ eofSent = FALSE
    /\ errs = 0
    /\ ready = <<>>
    /\ es = IF variant = "bytes" THEN EventStreamBytesNew ELSE EventStreamNew
    /\ out = <<>>
    /\ log = <<>>

NextAdapters ==
    \/ DeliverChunk
    \/ DeliverErr
    \/ DeliverEof
    \/ PollGeneric
    \/ PollLegacy
    \/ PollBytes

SpecAdapters == InitAdapters /\ [][NextAdapters]_vars

(***************************************************************************)
(* C23.  The state never moves back, and reaches Terminated only in the    *)
(* poll that pulls the upstream's end.  The bytes the adapter has dropped  *)
(* (received, plus the LF put behind a final CR, but neither tokenized nor *)
(* held) are none or the three of one byte order mark; none while the      *)
(* state is NotStarted, and the number changes only in a step that leaves  *)
(* NotStarted.                                                             *)
(***************************************************************************)
Rank(state) ==
    IF state = "NotStarted" THEN 0 ELSE IF state = "Started" THEN 1 ELSE 2

Held == IF variant = "bytes" THEN es.buffer \o es.remainder ELSE es.buffer

Dropped ==
    Len(Received) + Len(AddedLf) - Len(RawOf(log)) - Len(Held)

C23_State ==
    /\ Dropped \in {0, Len(BOM)}
    /\ es.state = "NotStarted" => Dropped = 0

C23_Step ==
    /\ Rank(es.state) <= Rank(es'.state)
    /\ (es'.state = "Terminated" /\ es.state # "Terminated")
          => (EofPulled' /\ ~EofPulled)
    /\ Dropped' # Dropped => (es.state = "NotStarted" /\ es'.state # "NotStarted")

C23_StateOnlyForward == []C23_State /\ [][C23_Step]_vars

\* the input began with two byte order marks; the stream has ended, one
\* mark was dropped and the other was tokenized as part of a line
W_C23 ==
    /\ StartsWith(input, BOM \o BOM)
    /\ Ended
    /\ Dropped = Len(BOM)
    /\ log # <<>> /\ StartsWith(log[1].raw, BOM)

(***************************************************************************)
(* reqwest.rs: EventSource, the reconnecting driver.  Here es is the       *)
(* EventSource: connection_state with the fields of its variants (future:  *)
(* "sent" or "done"; retry_state; attempt_number and delay_duration; the   *)
(* stream of the Open variant), last_event_id and retry_policy.  header is *)
(* the last-event-id header of the request sent last by                    *)
(* initiate_connection, requests the number of requests sent.  The retry   *)
(* policy is a parameter of the type: what its retry answers is chosen by  *)
(* the environment; each call of retry is recorded in retries with the     *)
(* last_retry handed to it and its answer, and the durations handed to its *)
(* set_reconnection_time in calls.  input is the body of the response of   *)
(* the current connection.                                                 *)
(***************************************************************************)
L_id_ctl == Ln(B_id \o <<COLON, 1>>)           \* "id:" and a control character

\* a header value takes no control character but the tab
HeaderValue_from_str(bytes) ==
    IF \A i \in 1..Len(bytes) : (bytes[i] >= 32 /\ bytes[i] # 127) \/ bytes[i] = 9
    THEN Some(bytes) ELSE None

EventSourceNew ==
    [connection_state |-> "Connecting", future |-> "sent", retry_state |-> None,
     attempt_number |-> 0, delay_duration |-> 0,
     stream |-> EventStreamBytesNew,
     header |-> None,
     requests |-> 1,
     last_event_id |-> EMPTY_STR,
     retry_policy |-> [calls |-> <<>>, retries |-> <<>>]]

\* [es, t, event, e, used, lines, opened, dropped]: the EventSource
\* afterwards, the Poll value, the items pulled from the body and the lines
\* tokenized, and whether a body was opened or dropped
Sourced(this, t, ev, e, r, opened, dropped) ==
    [es |-> this, res |-> [type |-> t, event |-> ev, e |-> e],
     used |-> r.used, lines |-> r.lines, opened |-> opened, dropped |-> dropped]

NoPull == [used |-> 0, lines |-> <<>>]

initiate_connection(this, retry_state) ==
    LET req(h) ==
            IF h = None THEN [ok |-> FALSE, es |-> this]
            ELSE [ok |-> TRUE,
                  es |-> [this EXCEPT !.connection_state = "Connecting",
                                      !.future = "sent",
                                      !.header = h,
                                      !.requests = @ + 1,
                                      !.retry_state = retry_state]]
    IN  req(HeaderValue_from_str(this.last_event_id))

\* handle_successful_response that sets the retry state back to none once
\* the connection is open
handle_successful_response_resets(this, response, retry_state) ==
    IF response # "ok" THEN [ok |-> FALSE, es |-> [this EXCEPT !.future = "done"]]
    ELSE [ok |-> TRUE,
          es |-> [this EXCEPT !.connection_state = "Open",
                              !.future = "done",
                              !.stream = EventStreamBytesNew,
                              !.retry_state = None]]

\* [ok, es]; response is "ok", "status" or "content_type"
handle_successful_response(this, response, retry_state) ==
    IF response # "ok" THEN [ok |-> FALSE, es |-> [this EXCEPT !.future = "done"]]
    ELSE [ok |-> TRUE,
          es |-> [this EXCEPT !.connection_state = "Open",
                              !.future = "done",
                              !.stream = EventStreamBytesNew,
                              !.retry_state = retry_state]]

start_retry(this, attempt_number, delay_duration) ==
    [this EXCEPT !.connection_state = "Retrying",
                 !.attempt_number = attempt_number,
                 !.delay_duration = delay_duration]

\* handle_error that asks the policy a second time for the delay
handle_error_asks_twice(this, answer, last_retry) ==
    LET call == [last_retry |-> last_retry, answer |-> answer]
        asked == [this EXCEPT !.retry_policy.retries = Append(Append(@, call), call)]
    IN  IF answer # None
        THEN start_retry(asked, IF last_retry # None THEN last_retry[1][1] ELSE 1,
                         answer[1])
        ELSE [asked EXCEPT !.connection_state = "Closed"]

\* answer is what retry_policy.retry returns: None or Some(delay)
handle_error(this, answer, last_retry) ==
    LET asked == [this EXCEPT !.retry_policy.retries =
                                  Append(@, [last_retry |-> last_retry,
                                             answer |-> answer])]
    IN  IF answer # None
        THEN start_retry(asked, IF last_retry # None THEN last_retry[1][1] ELSE 1,
                         answer[1])
        ELSE [asked EXCEPT !.connection_state = "Closed"]

\* handle_event that keeps the id it has when the event brings none
handle_event_keeps_id(this, event) ==
    [this EXCEPT !.last_event_id = IF event.id = EMPTY_STR THEN @ ELSE event.id,
                 !.retry_policy.calls =
                     IF event.retry # None THEN Append(@, event.retry[1]) ELSE @]

handle_event(this, event) ==
    [this EXCEPT !.last_event_id = event.id,
                 !.retry_policy.calls =
                     IF event.retry # None THEN Append(@, event.retry[1]) ELSE @]

\* a Connecting arm that has a failed request retried
connecting_arm_retries(this, response) ==
    LET handled(h) ==
            IF h.ok
            THEN Sourced(h.es, "Open", None, [kind |-> "None"], NoPull, TRUE, FALSE)
            ELSE Sourced(h.es, "Error", None,
                         [kind |-> response, retry_state |-> this.retry_state],
                         NoPull, FALSE, FALSE)
    IN  IF response = "pending"
        THEN Sourced(this, "Pending", None, [kind |-> "None"], NoPull, FALSE, FALSE)
        ELSE IF response = "err"
        THEN Sourced(handle_error([this EXCEPT !.future = "done"], Some(1),
                                  this.retry_state),
                     "Error", None,
                     [kind |-> "Transport", retry_state |-> this.retry_state],
                     NoPull, FALSE, FALSE)
        ELSE handled(handle_successful_response(this, response, this.retry_state))

\* the arms of EventSource::poll_next
connecting_arm(this, response) ==
    LET handled(h) ==
            IF h.ok
            THEN Sourced(h.es, "Open", None, [kind |-> "None"], NoPull, TRUE, FALSE)
            ELSE Sourced(h.es, "Error", None,
                         [kind |-> response, retry_state |-> this.retry_state],
                         NoPull, FALSE, FALSE)
    IN  IF response = "pending"
        THEN Sourced(this, "Pending", None, [kind |-> "None"], NoPull, FALSE, FALSE)
        ELSE IF response = "err"
        THEN Sourced([this EXCEPT !.connection_state = "Closed", !.future = "done"],
                     "Error", None,
                     [kind |-> "Transport", retry_state |-> this.retry_state],
                     NoPull, FALSE, FALSE)
        ELSE handled(handle_successful_response(this, response, this.retry_state))

retrying_arm(this, response) ==
    LET retry_state == Some(<<this.attempt_number + 1, this.delay_duration>>)
        initiated(c) ==
            IF ~c.ok
            THEN Sourced([this EXCEPT !.connection_state = "Closed"], "Error", None,
                         [kind |-> "InvalidLastEventId", retry_state |-> retry_state],
                         NoPull, FALSE, FALSE)
            ELSE connecting_arm(c.es, response)
    IN  initiated(initiate_connection(this, retry_state))

open_arm(this, ups, answer) ==
    LET polled(r) ==
            IF r.res.type = "Pending"
            THEN Sourced([this EXCEPT !.stream = r.es], "Pending", None,
                         [kind |-> "None"], r, FALSE, FALSE)
            ELSE IF r.res.type = "Event"
            THEN Sourced(handle_event([this EXCEPT !.stream = r.es], r.res.event[1]),
                         "Event", r.res.event, [kind |-> "None"], r, FALSE, FALSE)
            ELSE Sourced(handle_error([this EXCEPT !.stream = r.es], answer,
                                      this.retry_state),
                         "Error", None,
                         [kind |-> IF r.res.type = "End" THEN "StreamEnded"
                                   ELSE "Stream",
                          retry_state |-> this.retry_state],
                         r, FALSE, TRUE)
    IN  polled(bytes_poll_next(this.stream, ups))

\* the bodies a server answers with, cut into chunks at the ends of lines
SourceBodies ==
    { L_id_1 \o L_data \o L_empty \o L_data \o L_empty,
      L_retry_7 \o L_empty \o L_data \o L_empty,
      L_retry_7 \o L_data_x \o L_empty,
      L_id_ctl \o L_data \o L_empty,
      L_data_bad \o L_empty,
      L_data }
Responses == {"pending", "ok", "status", "content_type", "err"}
Answers == {None, Some(1)}

InitSource ==
    /\ variant = "source"
    /\ input = <<>>
    /\ cuts = {0}
    /\ pos = 0
    /\ eofSent = TRUE
    /\ errs = 0
    /\ ready = <<>>
    /\ es = EventSourceNew
    /\ out = <<>>
    /\ log = <<>>

OpenCount == Cardinality({i \in 1..Len(out) : out[i].type = "Open"})

\* the caller sees the result of one EventSource::poll_next call; a body
\* the server sends is chosen when the connection opens
ObserveSource(r) ==
    /\ es' = r.es
    /\ log' = log \o r.lines
    /\ out' = IF r.res.type = "Pending" THEN out
              ELSE Append(out, [type |-> r.res.type, event |-> r.res.event,
                                e |-> r.res.e, at |-> Len(log) + Len(r.lines)])
    /\ IF r.opened
       THEN /\ \E b \in SourceBodies :
                  input' = b /\ cuts' = {0} \cup LineEnds(b) \cup {Len(b)}
            /\ pos' = 0
            /\ eofSent' = FALSE
            /\ ready' = ready
       ELSE IF r.dropped
       THEN /\ pos' = Len(input)
            /\ eofSent' = TRUE
            /\ ready' = <<>>
            /\ UNCHANGED <<input, cuts>>
       ELSE /\ ready' = SubSeq(ready, r.used + 1, Len(ready))
            /\ UNCHANGED <<input, cuts, pos, eofSent>>
    /\ UNCHANGED <<variant, errs>>

PollConnecting ==
    /\ variant = "source"
    /\ es.connection_state = "Connecting" /\ es.future = "sent"
    /\ OpenCount < MaxConnects
    /\ \E response \in Responses : ObserveSource(connecting_arm(es, response))

PollRetrying ==
    /\ variant = "source"
    /\ es.connection_state = "Retrying"
    /\ OpenCount < MaxConnects
    /\ \E response \in Responses : ObserveSource(retrying_arm(es, response))

PollOpen ==
    /\ variant = "source"
    /\ es.connection_state = "Open"
    /\ \E answer \in Answers : ObserveSource(open_arm(es, ready, answer))

\* the caller polls again after an error that left the request future in
\* place: a future polled after it completed panics (or answers Pending for
\* ever, which changes nothing)
PollCompleted ==
    /\ variant = "source"
    /\ es.connection_state = "Connecting" /\ es.future = "done"
    /\ ObserveSource(Sourced([es EXCEPT !.future = "polled again"], "Panic", None,
                             [kind |-> "None"], NoPull, FALSE, FALSE))

PollClosed ==
    /\ variant = "source"
    /\ es.connection_state = "Closed"
    /\ EndCount < MaxEndPolls
    /\ ObserveSource(Sourced(es, "End", None, [kind |-> "None"], NoPull, FALSE, FALSE))

NextSource ==
    \/ DeliverChunk
    \/ DeliverErr
    \/ DeliverEof
    \/ PollConnecting
    \/ PollRetrying
    \/ PollOpen
    \/ PollCompleted
    \/ PollClosed

SpecSource == InitSource /\ [][NextSource]_vars

(***************************************************************************)
(* C24.  While a connection is open and has not yet given an event, the    *)
(* last_event_id of its adapter is the last_event_id of the EventSource:   *)
(* the adapter of a new connection starts from the id of the last event    *)
(* of the connection before.                                               *)
(***************************************************************************)
LastOpen ==
    CHOOSE k \in 1..Len(out) :
        out[k].type = "Open" /\ \A j \in (k + 1)..Len(out) : out[j].type # "Open"

NoEventYet == \A j \in (LastOpen + 1)..Len(out) : out[j].type # "Event"

C24_ReconnectSeedsAdapter ==
    (es.connection_state = "Open" /\ NoEventYet)
        => es.stream.last_event_id = es.last_event_id

(***************************************************************************)
(* C25.  Every block of the stream that holds a retry line with a valid    *)
(* value and has been closed by its empty line has given its duration to   *)
(* set_reconnection_time of the retry policy, in the order of the blocks,  *)
(* whether or not the block had a data line.                               *)
(***************************************************************************)
ValidRetry(l) ==
    IsFieldLine(l, B_retry) /\ HasValue(l) /\ parse_u64(ValueOf(l)) # None

\* the lines of the block closed at p that came over the same connection
SameBlock(p) ==
    {q \in BlockStart(p)..(p - 1) :
        \A k \in 1..Len(out) :
            (out[k].type = "Open" /\ out[k].at < p) => out[k].at < q}

\* the empty lines of the history that close a block with a valid retry line
RetryPoints ==
    {p \in 1..Len(log) :
        IsEmptyLine(log[p]) /\ \E q \in SameBlock(p) : ValidRetry(log[q])}

LastRetryOf(p) ==
    LET at == CHOOSE q \in SameBlock(p) :
                  ValidRetry(log[q])
                      /\ \A r \in SameBlock(p) : r > q => ~ValidRetry(log[r])
    IN  parse_u64(ValueOf(log[at]))[1]

C25_RetryReachesPolicy ==
    /\ Len(es.retry_policy.calls) = Cardinality(RetryPoints)
    /\ \A p \in RetryPoints :
          es.retry_policy.calls[Cardinality({q \in RetryPoints : q <= p})]
              = LastRetryOf(p)

(***************************************************************************)
(* utf8_stream.rs: Utf8Stream.  Here es is the Utf8StreamState: Active     *)
(* with its buffer, or Terminated, which has none.  An Ok item of the      *)
(* stream is the result "Ok" with its bytes in event.                      *)
(***************************************************************************)
\* the length of the first character of b, 0 when b does not start with a
\* whole character
CharLen(b) ==
    IF b = <<>> THEN 0
    ELSE IF b[1] < 128 THEN 1
    ELSE IF b[1] \in 194..223
         THEN IF Len(b) >= 2 /\ from_utf8_ok(SliceTo(b, 2)) THEN 2 ELSE 0
    ELSE IF b[1] \in 224..239
         THEN IF Len(b) >= 3 /\ from_utf8_ok(SliceTo(b, 3)) THEN 3 ELSE 0
    ELSE IF b[1] \in 240..244
         THEN IF Len(b) >= 4 /\ from_utf8_ok(SliceTo(b, 4)) THEN 4 ELSE 0
    ELSE 0

\* Utf8Error::valid_up_to: the length of the longest prefix that is UTF-8
RECURSIVE valid_up_to(_)
valid_up_to(b) ==
    IF CharLen(b) = 0 THEN 0
    ELSE CharLen(b) + valid_up_to(SliceFrom(b, CharLen(b)))

Utf8StreamNew == [state |-> "Active", buffer |-> <<>>]

\* a Some(Ok(bytes)) arm that throws away what it cannot emit
utf8_chunk_drops_rest(this, bytes) ==
    LET checked(buffer) ==
            IF from_utf8_ok(buffer)
            THEN Polled([this EXCEPT !.buffer = <<>>], "Ok", Some(buffer), 0, 1, <<>>)
            ELSE Polled([this EXCEPT !.buffer = <<>>],
                        "Ok", Some(SliceTo(buffer, valid_up_to(buffer))), 0, 1, <<>>)
    IN  checked(this.buffer \o bytes)

\* a Some(Ok(bytes)) arm that skips the byte at which the check failed
utf8_chunk_skips_bad_byte(this, bytes) ==
    LET checked(buffer) ==
            IF from_utf8_ok(buffer)
            THEN Polled([this EXCEPT !.buffer = <<>>], "Ok", Some(buffer), 0, 1, <<>>)
            ELSE Polled([this EXCEPT !.buffer = SliceFrom(buffer, valid_up_to(buffer) + 1)],
                        "Ok", Some(SliceTo(buffer, valid_up_to(buffer))), 0, 1, <<>>)
    IN  checked(this.buffer \o bytes)

\* the Some(Ok(bytes)) arm: the valid start of the buffer goes out
utf8_chunk(this, bytes) ==
    LET checked(buffer) ==
            IF from_utf8_ok(buffer)
            THEN Polled([this EXCEPT !.buffer = <<>>], "Ok", Some(buffer), 0, 1, <<>>)
            ELSE Polled([this EXCEPT !.buffer = SliceFrom(buffer, valid_up_to(buffer))],
                        "Ok", Some(SliceTo(buffer, valid_up_to(buffer))), 0, 1, <<>>)
    IN  checked(this.buffer \o bytes)

\* a Some(Err(err)) arm that forgets the bytes held back
utf8_transport_error_clears(this, e) ==
    Polled([this EXCEPT !.buffer = <<>>], "Transport", None, e, 1, <<>>)

\* the Some(Err(err)) arm
utf8_transport_error(this, e) ==
    Polled(this, "Transport", None, e, 1, <<>>)

\* a None arm that reports what is left but stays Active
utf8_at_eof_stays_active(this) ==
    IF this.buffer = <<>> THEN Polled(this, "End", None, 0, 1, <<>>)
    ELSE IF from_utf8_ok(this.buffer)
    THEN Polled([this EXCEPT !.buffer = <<>>], "Ok", Some(this.buffer), 0, 1, <<>>)
    ELSE Polled([this EXCEPT !.buffer = <<>>], "Utf8Error", None, 0, 1, <<>>)

\* the None arm: the buffer is taken and the state set to Terminated
utf8_at_eof(this) ==
    LET terminated == [state |-> "Terminated", buffer |-> <<>>]
    IN  IF this.buffer = <<>> THEN Polled(terminated, "End", None, 0, 1, <<>>)
        ELSE IF from_utf8_ok(this.buffer)
        THEN Polled(terminated, "Ok", Some(this.buffer), 0, 1, <<>>)
        ELSE Polled(terminated, "Utf8Error", None, 0, 1, <<>>)

utf8_poll_next(this, ups) ==
    IF this.state = "Terminated" THEN Polled(this, "End", None, 0, 0, <<>>)
    ELSE IF ups = <<>> THEN Polled(this, "Pending", None, 0, 0, <<>>)
    ELSE IF ups[1].kind = "Chunk" THEN utf8_chunk(this, ups[1].bytes)
    ELSE IF ups[1].kind = "Err" THEN utf8_transport_error(this, ups[1].e)
    ELSE utf8_at_eof(this)

\* inputs of up to MaxChars pieces: a letter, characters of two and of four
\* bytes, the first half of a character of four bytes, and a byte that is
\* never part of UTF-8
Utf8Pieces == {<<97>>, <<195, 169>>, <<240, 159, 145, 141>>, <<240, 159>>, <<255>>}

RECURSIVE Utf8Inputs(_)
Utf8Inputs(n) ==
    IF n = 0 THEN {<<>>}
    ELSE LET shorter == Utf8Inputs(n - 1)
         IN  shorter \cup {i \o c : i \in shorter, c \in Utf8Pieces}

InitUtf8 ==
    /\ variant = "utf8"
    /\ \E i \in Utf8Inputs(MaxChars) : input = i /\ cuts = 0..Len(i)
    /\ pos = 0
    /\ eofSent = FALSE
    /\ errs = 0
    /\ ready = <<>>
    /\ es = Utf8StreamNew
    /\ out = <<>>
    /\ log = <<>>

\* every chunk gives an item, the empty ones too: the run is followed for
\* MaxItems results
PollUtf8 ==
    /\ variant = "utf8"
    /\ EndCount < MaxEndPolls
    /\ Len(out) < MaxItems
    /\ Observe(utf8_poll_next(es, ready))

NextUtf8 ==
    \/ DeliverChunk
    \/ DeliverErr
    \/ DeliverEof
    \/ PollUtf8

SpecUtf8 == InitUtf8 /\ [][NextUtf8]_vars

OkIdx == {k \in 1..Len(out) : out[k].type = "Ok"}

\* the bytes of the Ok items among a sequence of results
RECURSIVE OkBytes(_)
OkBytes(results) ==
    IF results = <<>> THEN <<>>
    ELSE (IF results[1].type = "Ok" THEN results[1].event[1] ELSE <<>>)
            \o OkBytes(Tail(results))

(***************************************************************************)
(* C26, as claimed.  Every Ok item is valid UTF-8, and after every poll    *)
(* the Ok items so far followed by the bytes in the buffer are the bytes   *)
(* of the chunks received so far.                                          *)
(***************************************************************************)
C26_OkItemsThenBufferIsInput ==
    /\ \A k \in OkIdx : from_utf8_ok(out[k].event[1])
    /\ OkBytes(out) \o es.buffer = Received

(***************************************************************************)
(* C26, amended.  Every Ok item is valid UTF-8.  After every poll that     *)
(* leaves the stream Active, the Ok items so far followed by the bytes in  *)
(* the buffer are the bytes of the chunks received so far, and the buffer  *)
(* is empty or starts with bytes that are no whole character: what is      *)
(* held back of a character goes out in one item with the bytes that       *)
(* complete it.  The poll that pulls the upstream's end leaves no buffer:  *)
(* the Ok items are then the longest valid UTF-8 prefix of the bytes       *)
(* received.                                                               *)
(***************************************************************************)
C26_OkItemsThenBufferWhileActive ==
    /\ \A k \in OkIdx : from_utf8_ok(out[k].event[1])
    /\ es.state = "Active" =>
          /\ OkBytes(out) \o es.buffer = Received
          /\ CharLen(es.buffer) = 0
    /\ es.state = "Terminated" =>
          OkBytes(out) = SliceTo(Received, valid_up_to(Received))

\* the first half of a character of four bytes came in one chunk and was
\* held back (an empty item went out); the next chunk completed it and the
\* character went out whole, with the letter that followed it
W_C26 ==
    \E k \in OkIdx :
        /\ k + 1 \in OkIdx
        /\ out[k].event[1] = <<>>
        /\ out[k + 1].event[1] = <<240, 159, 145, 141, 97>>
        /\ es.state = "Active"

(***************************************************************************)
(* C27.  The poll that pulls the upstream's end returns the end of the     *)
(* stream when the buffer is empty and a UTF-8 error when it is not, and   *)
(* leaves the stream Terminated.  The stream is Terminated from that poll  *)
(* on; a Terminated stream pulls nothing from the upstream and each of its *)
(* polls returns the end of the stream.  So there is at most one UTF-8     *)
(* error, and nothing but ends of the stream follows it.                   *)
(***************************************************************************)
C27_State ==
    /\ es.state = "Terminated" <=> EofPulled
    /\ \A i, j \in 1..Len(out) :
          (i < j /\ out[i].type \in {"Utf8Error", "End"}) => out[j].type = "End"

C27_Step ==
    /\ (EofPulled' /\ ~EofPulled) =>
          /\ es'.state = "Terminated"
          /\ Len(out') = Len(out) + 1
          /\ out'[Len(out')].type
                = IF es.buffer = <<>> THEN "End" ELSE "Utf8Error"
    /\ es.state = "Terminated" =>
          /\ es' = es
          /\ Len(ready') >= Len(ready) /\ SubSeq(ready', 1, Len(ready)) = ready
          /\ out' # out =>
                (Len(out') = Len(out) + 1 /\ out'[Len(out')].type = "End")

C27_Utf8StreamAtEof == []C27_State /\ [][C27_Step]_vars

\* the upstream ended inside a character: the stream returned the UTF-8
\* error, then the end of the stream, and an item the upstream offered
\* after its end is still not pulled
W_C27 ==
    /\ Len(out) >= 2
    /\ out[Len(out) - 1].type = "Utf8Error"
    /\ out[Len(out)].type = "End"
    /\ ready # <<>>
    /\ input = <<97, 240, 159>>

(***************************************************************************)
(* C28.  A poll that pulls an upstream error e returns Transport(e) and    *)
(* changes nothing: the stream stays Active with the same buffer.  So      *)
(* also after errors the Ok items followed by the buffer are the bytes     *)
(* received, for as long as the stream is Active.                          *)
(***************************************************************************)
TransportIdx == {k \in 1..Len(out) : out[k].type = "Transport"}

C28_Step ==
    (Len(out') = Len(out) + 1 /\ out'[Len(out')].type = "Transport") =>
        /\ ready # <<>> /\ ready[1].kind = "Err"
        /\ out'[Len(out')].e = ready[1].e
        /\ ready' = Tail(ready)
        /\ es' = es
        /\ es'.state = "Active"

C28_State ==
    (TransportIdx # {} /\ es.state = "Active") =>
        OkBytes(out) \o es.buffer = Received

C28_Utf8TransportErrorPassesThrough == []C28_State /\ [][C28_Step]_vars

\* the error came between the two halves of a character: the first half
\* was held back, the error was returned, and the next chunk gave the
\* character whole
W_C28 ==
    \E k \in TransportIdx :
        /\ k - 1 \in OkIdx /\ out[k - 1].event[1] = <<>>
        /\ k + 1 \in OkIdx /\ out[k + 1].event[1] = <<240, 159, 145, 141>>

(***************************************************************************)
(* Round trip: events are written as SSE text and the text is parsed by    *)
(* the adapters of Spec.  An event is written as the claim says: an event  *)
(* line, an id line, one data line for every line of its data, and an      *)
(* empty line; a field line is the name, a colon, one space and the value. *)
(* The events written are the entries "Written" of out, in front of the    *)
(* results of the polls.                                                   *)
(***************************************************************************)
FieldLineOf(name, value) == name \o <<COLON, SPACE>> \o value \o <<LF>>

\* the data lines of an event: its data cut at every LF
RECURSIVE DataLinesOf(_)
DataLinesOf(data) ==
    LET lf == memchr_set({LF}, data)
    IN  IF lf = None THEN FieldLineOf(B_data, data)
        ELSE FieldLineOf(B_data, SliceTo(data, lf[1]))
                \o DataLinesOf(SliceFrom(data, lf[1] + 1))

Serialize(e) ==
    FieldLineOf(B_event, e.event) \o FieldLineOf(B_id, e.id)
        \o DataLinesOf(e.data) \o <<LF>>

EventOf(event, id, data) ==
    [event |-> event, data |-> data, id |-> id, retry |-> None]

\* events that a text can carry, and events with an empty type, with a CR
\* in the type, and with a CR in the data
PlainEvents ==
    {EventOf(t, i, d) :
        t \in {<<101>>, <<SPACE, 101>>},
        i \in {<<>>, <<49>>},
        d \in {<<>>, <<SPACE, 120>>, <<120, LF, 121>>, <<LF>>}}
OddEvents ==
    { EventOf(<<>>, <<49>>, <<120>>),
      EventOf(<<101, CR>>, <<>>, <<120>>),
      EventOf(<<101>>, <<>>, <<120, CR, 121>>) }
RoundTripEvents == PlainEvents \cup OddEvents

WrittenIdx == {k \in 1..Len(out) : out[k].type = "Written"}

\* the events written, in order
RECURSIVE WrittenOf(_)
WrittenOf(results) ==
    IF results = <<>> THEN <<>>
    ELSE IF results[1].type = "Written"
         THEN <<results[1].event[1]>> \o WrittenOf(Tail(results))
         ELSE WrittenOf(Tail(results))

InitRoundTrip ==
    /\ variant \in Variants
    /\ input = <<>>
    /\ cuts = {0}
    /\ pos = 0
    /\ eofSent = FALSE
    /\ errs = 0
    /\ ready = <<>>
    /\ es = EventStreamNew
    /\ out = <<>>
    /\ log = <<>>

\* one more event is written to the text, before any of it is sent; a
\* chunk may end where the text of an event ends
WriteEvent ==
    /\ pos = 0 /\ ready = <<>> /\ ~eofSent
    /\ Len(out) < MaxEvents
    /\ \A k \in 1..Len(out) : out[k].type = "Written"
    /\ \E e \in RoundTripEvents :
          /\ input' = input \o Serialize(e)
          /\ cuts' = cuts \cup {Len(input) + Len(Serialize(e))}
          /\ out' = Append(out, [type |-> "Written", event |-> Some(e),
                                 e |-> 0, at |-> 0])
    /\ UNCHANGED <<variant, pos, eofSent, errs, ready, es, log>>

NextRoundTrip ==
    \/ WriteEvent
    \/ DeliverChunk
    \/ DeliverEof
    \/ PollGeneric
    \/ PollLegacy

SpecRoundTrip == InitRoundTrip /\ [][NextRoundTrip]_vars

(***************************************************************************)
(* C29, as claimed.  Once the stream has ended, the events returned are    *)
(* the events written (none of which has a retry or a NUL in its id).      *)
(***************************************************************************)
C29_RoundTrip ==
    Ended => EventsOf(out) = WrittenOf(out)

(***************************************************************************)
(* C29, amended.  Once the stream has ended, the events returned are the   *)
(* events written, provided every event written has a type that is not     *)
(* empty, no CR or LF in its type and its id, and no CR in its data (and   *)
(* no retry and no NUL in its id).                                         *)
(***************************************************************************)
Has(bytes, needles) == memchr_set(needles, bytes) # None

Writable(e) ==
    /\ e.event # <<>>
    /\ ~Has(e.event, {CR, LF}) /\ ~Has(e.id, {CR, LF, NUL}) /\ ~Has(e.data, {CR})
    /\ e.retry = None

C29_RoundTripOfWritableEvents ==
    (Ended /\ \A k \in WrittenIdx : Writable(out[k].event[1]))
        => EventsOf(out) = WrittenOf(out)

\* two events were written and came back: the first with an id and data of
\* two lines, the second with an empty id and data that is one LF
W_C29 ==
    /\ Ended
    /\ Len(EventsOf(out)) = 2 /\ EventsOf(out) = WrittenOf(out)
    /\ EventsOf(out)[1].id = <<49>> /\ EventsOf(out)[1].data = <<120, LF, 121>>
    /\ EventsOf(out)[2].id = <<>> /\ EventsOf(out)[2].data = <<LF>>

(***************************************************************************)
(* EventStreamBytes over streams of two events, with or without a byte     *)
(* order mark and an unfinished end, where the upstream may end a chunk    *)
(* anywhere: inside a line, between the lines of an event, between events. *)
(***************************************************************************)
PathInputs ==
    {h \o L_data_x \o L_empty \o L_data \o L_empty \o t :
        h \in {<<>>, BOM}, t \in {<<>>, B_data, <<CR>>}}

InitBytesPaths ==
    /\ variant = "bytes"
    /\ \E i \in PathInputs : input = i /\ cuts = 0..Len(i)
    /\ pos = 0
    /\ eofSent = FALSE
    /\ errs = 0
    /\ ready = <<>>
    /\ es = EventStreamBytesNew
    /\ out = <<>>
    /\ log = <<>>

SpecBytesPaths == InitBytesPaths /\ [][NextBytes]_vars

(***************************************************************************)
(* C30.  After every poll of EventStreamBytes, the bytes tokenized so far, *)
(* then the work buffer, then the remainder are the bytes received (less   *)
(* the byte order mark, plus the LF put behind a final CR): the buffer     *)
(* followed by the remainder is the part of the input not yet consumed,    *)
(* in order.  At most one of the two holds bytes.  Every line tokenized    *)
(* ends with its terminator, so a line begun in a chunk that was parsed as *)
(* remainder and completed by a later chunk is tokenized as one line.      *)
(***************************************************************************)
C30_BufferThenRemainderIsRest ==
    /\ RawOf(log) \o es.buffer \o es.remainder
          = (IF es.state = "NotStarted" THEN Received ELSE WithoutBom(Received))
                \o AddedLf
    /\ es.buffer = <<>> \/ es.remainder = <<>>
    /\ \A p \in 1..Len(log) :
          /\ Last(log[p].raw) \in {CR, LF}
          /\ \A i \in 1..(Len(log[p].raw) - 1) :
                log[p].raw[i] \in {CR, LF}
                    => (i = Len(log[p].raw) - 1 /\ log[p].raw[i] = CR)

\* the first chunk ended two bytes into the second event: its first event
\* was returned out of the remainder, the two bytes were moved to the work
\* buffer, and the chunk that completes the line is ready
W_C30 ==
    /\ Len(EventsOf(out)) = 1
    /\ es.buffer = <<100, 97>>
    /\ es.remainder = <<>>
    /\ ready = <<ChunkItem(<<116, 97, LF, LF>>)>>

(***************************************************************************)
(* C31.  In EventStreamBytes the work buffer and the remainder never both  *)
(* hold bytes.  A remainder that holds bytes is the end of one chunk as it *)
(* came: of the chunk that was the remainder before the poll, or of a      *)
(* chunk pulled in the poll, and then the work buffer is empty.  Whenever  *)
(* a poll leaves bytes it put into the work buffer, the remainder is       *)
(* empty.                                                                  *)
(***************************************************************************)
C31_State == es.buffer = <<>> \/ es.remainder = <<>>

C31_Step ==
    es' # es =>
        /\ es'.remainder # <<>> =>
              /\ es'.buffer = <<>>
              /\ \/ /\ ready' = ready
                    /\ EndsWith(es.remainder, es'.remainder)
                 \/ \E k \in 1..(Len(ready) - Len(ready')) :
                       /\ ready[k].kind = "Chunk"
                       /\ EndsWith(ready[k].bytes, es'.remainder)
        /\ (es'.buffer # <<>> /\ es'.buffer # es.buffer) => es'.remainder = <<>>

C31_BufferOrRemainder == []C31_State /\ [][C31_Step]_vars

\* a chunk that ended inside the third event was installed as the
\* remainder: the first event was returned out of it, and the second event
\* and the unfinished line are still in it
W_C31 ==
    /\ es.buffer = <<>>
    /\ es.remainder = L_data \o L_empty \o B_data
    /\ Len(EventsOf(out)) = 1

(***************************************************************************)
(* The three adapters over the streams of two events, where the upstream   *)
(* may end a chunk anywhere.                                               *)
(***************************************************************************)
InitDrain ==
    /\ variant \in Variants \cup {"bytes"}
    /\ \E i \in PathInputs : input = i /\ cuts = 0..Len(i)
    /\ pos = 0
    /\ eofSent = FALSE
    /\ errs = 0
    /\ ready = <<>>
    /\ es = IF variant = "bytes" THEN EventStreamBytesNew ELSE EventStreamNew
    /\ out = <<>>
    /\ log = <<>>

SpecDrain == InitDrain /\ [][NextAdapters]_vars

\* one poll of the adapter v when the upstream has the items ups ready and
\* answers Pending after them
PollAny(v, this, ups) ==
    IF v = "bytes" THEN bytes_poll_next(this, ups) ELSE PollOf(v, this, ups)

HeldBy(v, this) ==
    IF v = "bytes" THEN this.buffer \o this.remainder ELSE this.buffer

(***************************************************************************)
(* C32.  The upstream is asked only when the bytes the adapter holds are   *)
(* drained.  Take a poll that pulled items from the upstream, and any one  *)
(* of these items: had the upstream answered Pending instead of handing it *)
(* out, the poll would have returned Pending, having pulled the items      *)
(* before it, and would have left a buffer (with the remainder) that holds *)
(* no complete line.  So no event and no error that the bytes received     *)
(* complete is still to come when more input is asked for.                 *)
(***************************************************************************)
C32_Step ==
    \A k \in 0..(Len(ready) - Len(ready') - 1) :
        LET p == PollAny(variant, es, SubSeq(ready, 1, k))
        IN  /\ p.res.type = "Pending"
            /\ p.used = k
            /\ find_eol(HeldBy(variant, p.es)) = None

C32_PullsOnlyWhenDrained == [][C32_Step]_vars

\* both events were returned, then the adapter asked the upstream once more
\* and holds the unfinished line that came after them
W_C32 ==
    /\ Len(EventsOf(out)) = 2
    /\ Held = B_data
    /\ ready = <<>>
    /\ ~eofSent

(***************************************************************************)
(* The three tokenizers side by side, each over its own copy of an input   *)
(* one byte shorter than the longest of SpecParser:                        *)
(* parse_line_from_buffer over es.buffer with its lines in log, parse_line *)
(* over the slice of the input from pos on with its lines in out as        *)
(* "Line", parse_line_from_bytes over es.remainder with its lines in out   *)
(* as "BytesLine".                                                         *)
(***************************************************************************)
InitTokenizers ==
    /\ variant = "tokenizers"
    /\ input \in ParserInputs(MaxInput - 1)
    /\ cuts = {}
    /\ pos = 0
    /\ eofSent = FALSE
    /\ errs = 0
    /\ ready = <<>>
    /\ es = [EventStreamBytesNew EXCEPT !.buffer = input, !.remainder = input]
    /\ out = <<>>
    /\ log = <<>>

\* parse_line_from_bytes takes the next line out of the shared Bytes
TokenizeBytes ==
    /\ LET taken(p) ==
               /\ p # None
               /\ es' = [es EXCEPT !.remainder = p[1].buffer]
               /\ out' = Append(out,
                                [type |-> "BytesLine",
                                 raw |-> SliceTo(es.remainder,
                                                 Len(es.remainder) - Len(p[1].buffer)),
                                 line |-> p[1].line])
       IN  taken(parse_line_from_bytes(es.remainder))
    /\ UNCHANGED <<variant, input, cuts, pos, eofSent, errs, ready, log>>

NextTokenizers ==
    \/ TokenizeBuffer
    \/ TokenizeSlice
    \/ TokenizeBytes

SpecTokenizers == InitTokenizers /\ [][NextTokenizers]_vars

\* the lines one of the two tokenizers that write to out has read
LinesOf(t) == SelectSeq(out, LAMBDA l : l.type = t)

(***************************************************************************)
(* C33.  parse_line, parse_line_from_buffer and parse_line_from_bytes      *)
(* agree: on each of the byte strings the three are at, all three return   *)
(* None or all three return the same line (kind, name, optional value) and *)
(* leave the same bytes behind; a line returned takes exactly one line     *)
(* with its terminator off the front.  The bytes each has taken and the    *)
(* bytes it still holds are the input, and the k-th line is the same for   *)
(* all three.                                                              *)
(***************************************************************************)
C33_TokenizersAgree ==
    /\ \A x \in {es.buffer, es.remainder, SliceFrom(input, pos)} :
          /\ parse_line(x) = parse_line_from_buffer(x)
          /\ parse_line_from_bytes(x) = parse_line_from_buffer(x)
          /\ parse_line(x) # None =>
                LET rest == parse_line(x)[1].buffer
                    raw == SliceTo(x, Len(x) - Len(rest))
                IN  /\ x = raw \o rest
                    /\ TokenOk(raw, rest)
                    /\ parse_line(x)[1].line = Classify(BodyOf(raw))
    /\ RawOf(log) \o es.buffer = input
    /\ RawOf(LinesOf("BytesLine")) \o es.remainder = input
    /\ RawOf(LinesOf("Line")) = SliceTo(input, pos)
    /\ \A k \in 1..Len(log) :
          /\ \A t \in {"Line", "BytesLine"} :
                k <= Len(LinesOf(t)) =>
                    /\ LinesOf(t)[k].raw = log[k].raw
                    /\ LinesOf(t)[k].line = log[k].line

\* the three tokenizers have each read a field whose value is what follows
\* the one space after the colon: nothing
W_C33 ==
    /\ Len(log) = 1 /\ Len(LinesOf("Line")) = 1 /\ Len(LinesOf("BytesLine")) = 1
    /\ log[1].line = RawField(<<97>>, Some(<<>>))
    /\ log[1].raw = <<97, COLON, SPACE, LF>>
    /\ es.buffer = <<>> /\ es.remainder = <<>> /\ pos = Len(input)

(***************************************************************************)
(* The three adapters over the streams of two events with a caller that    *)
(* goes on polling and an upstream that is finite: however often it hands  *)
(* out an empty chunk or an error, it hands out its next bytes and then    *)
(* its end.                                                                *)
(***************************************************************************)
UpstreamAdvances ==
    \/ DeliverChunk /\ pos' > pos
    \/ DeliverEof

Polls == PollGeneric \/ PollLegacy \/ PollBytes

\* a poll would change something: ENABLED <<Polls>>_vars, written as a
\* state predicate
PollActs ==
    /\ EndCount < MaxEndPolls
    /\ LET acts(r) ==
               r.es # es \/ r.used > 0 \/ r.lines # <<>> \/ r.res.type # "Pending"
       IN  acts(PollAny(variant, es, ready))

\* weak fairness of Polls (with PollActs for its ENABLED), strong fairness
\* of the upstream's advance, which a ready item that was not pulled yet
\* holds up
SpecFinite ==
    /\ InitDrain
    /\ [][NextAdapters]_vars
    /\ ([]<>(~PollActs) \/ []<><<Polls>>_vars)
    /\ SF_vars(UpstreamAdvances)

\* what a poll can still work on without the upstream handing out more:
\* the bytes the adapter holds, the items that are ready, and their bytes
Measure == Len(Held) + Len(ready) + Len(BytesOf(ready))

(***************************************************************************)
(* C34.  Polling an adapter whose upstream is finite and ends with EOF     *)
(* returns end-of-stream after finitely many polls.  A poll pulls no more  *)
(* than the items that are ready, and all of them when it returns Pending; *)
(* a poll that returns an event or an error has taken bytes or items away: *)
(* what is held and ready is less afterwards, so the polls between two     *)
(* items of the upstream are finitely many.                                *)
(***************************************************************************)
C34_Step ==
    /\ Len(ready') <= Len(ready) + 1
    /\ (es' # es \/ out' # out) => Len(ready') <= Len(ready)
    /\ out' # out =>
          /\ out'[Len(out')].type # "End" => Measure' < Measure
          /\ out'[Len(out')].type = "End" => Measure' <= Measure

C34_EndAfterFinitelyManyPolls == [][C34_Step]_vars /\ <>(EndCount > 0)

\* a stream that began with a byte order mark has ended: both events were
\* returned and the unfinished line after them is still held
W_C34 ==
    /\ Ended
    /\ StartsWith(input, BOM)
    /\ Len(EventsOf(out)) = 2
    /\ Held = B_data

(***************************************************************************)
(* C35.  Utf8Stream keeps every byte it cannot decode.  The buffer of an   *)
(* Active stream is empty or no UTF-8, so the poll that pulls the          *)
(* upstream's end never returns an Ok item.  Once the buffer starts with   *)
(* bytes that no further bytes make a character, it does so until the end: *)
(* a poll that pulls a chunk returns an empty Ok item and puts the chunk   *)
(* behind the buffer, a poll that pulls an error changes nothing, and the  *)
(* poll that pulls the upstream's end returns a UTF-8 error.               *)
(***************************************************************************)
\* the ways to go on after the first bytes of a character
Utf8Tails ==
    {<<b>> : b \in {128, 144, 160}}
        \cup {<<b, 128>> : b \in {128, 144, 160}}
        \cup {<<b, 128, 128>> : b \in {128, 144, 160}}

\* b starts with bytes that are no character and no start of one
NeverUtf8(b) ==
    /\ b # <<>>
    /\ CharLen(b) = 0
    /\ \A t \in Utf8Tails : CharLen(b \o t) = 0

C35_State ==
    (es.state = "Active" /\ es.buffer # <<>>) => ~from_utf8_ok(es.buffer)

C35_Step ==
    /\ (EofPulled' /\ ~EofPulled) => out'[Len(out')].type # "Ok"
    /\ (es.state = "Active" /\ NeverUtf8(es.buffer) /\ out' # out) =>
          /\ ready # <<>> /\ ready' = Tail(ready)
          /\ Len(out') = Len(out) + 1
          /\ ready[1].kind = "Chunk" =>
                /\ out'[Len(out')].type = "Ok"
                /\ out'[Len(out')].event = Some(<<>>)
                /\ es'.buffer = es.buffer \o ready[1].bytes
                /\ es'.state = "Active"
                /\ NeverUtf8(es'.buffer)
          /\ ready[1].kind = "Err" =>
                /\ out'[Len(out')].type = "Transport"
                /\ es' = es
          /\ ready[1].kind = "Eof" =>
                /\ out'[Len(out')].type = "Utf8Error"
                /\ es'.state = "Terminated"

C35_InvalidBytesAreKept == []C35_State /\ [][C35_Step]_vars

\* a byte that is never part of UTF-8 came first and a letter after it: a
\* chunk with the letter gave an empty item, and the upstream's end a
\* UTF-8 error
W_C35 ==
    /\ input = <<255, 97>>
    /\ Len(out) >= 2
    /\ out[Len(out)].type = "Utf8Error"
    /\ out[Len(out) - 1].type = "Ok"
    /\ out[Len(out) - 1].event = Some(<<>>)
    /\ OkBytes(out) = <<>>

(***************************************************************************)
(* C36.  After the EventSource has returned the error for a response with  *)
(* a status that is no success or with another content type, its           *)
(* connection state is Closed or Retrying: it is not Connecting with the   *)
(* request future that has completed.                                      *)
(***************************************************************************)
C36_ResponseErrorLeavesConnecting ==
    (/\ out # <<>>
     /\ out[Len(out)].type = "Error"
     /\ out[Len(out)].e.kind \in {"status", "content_type"})
        => es.connection_state \in {"Closed", "Retrying"}

(***************************************************************************)
(* C37, as claimed.  While the EventSource is Open, an error of the stream *)
(* or its end is returned as an error and the retry policy is asked once.  *)
(* If it answers a delay the state becomes Retrying, and the poll that     *)
(* follows the delay sends a new request; if it answers nothing the state  *)
(* becomes Closed, and every later poll returns the end of the stream and  *)
(* sends no request.                                                       *)
(***************************************************************************)
Retries == es.retry_policy.retries

\* the poll of an Open EventSource that returns an error
C37_OpenError ==
    (es.connection_state = "Open" /\ es'.connection_state # "Open") =>
        /\ Len(out') = Len(out) + 1
        /\ out'[Len(out')].type = "Error"
        /\ out'[Len(out')].e.kind \in {"Stream", "StreamEnded"}
        /\ Len(Retries') = Len(Retries) + 1
        /\ SubSeq(Retries', 1, Len(Retries)) = Retries
        /\ es'.connection_state
              = IF Retries'[Len(Retries')].answer # None THEN "Retrying" ELSE "Closed"
        /\ es'.requests = es.requests

C37_OpenStays ==
    (es.connection_state = "Open" /\ es'.connection_state = "Open") =>
        /\ Retries' = Retries
        /\ out' # out => out'[Len(out')].type = "Event"

C37_ClosedStays ==
    es.connection_state = "Closed" =>
        /\ es' = es
        /\ out' # out => (Len(out') = Len(out) + 1 /\ out'[Len(out')].type = "End")

C37_RetrySendsRequest ==
    [][/\ C37_OpenError
       /\ C37_OpenStays
       /\ C37_ClosedStays
       /\ (es.connection_state = "Retrying" /\ es' # es) =>
              es'.requests = es.requests + 1]_vars

(***************************************************************************)
(* C37, amended.  The same, but the poll that follows the delay sends a    *)
(* new request only if the last event id can be a header value; if it      *)
(* cannot, that poll returns an InvalidLastEventId error, sends nothing    *)
(* and leaves the EventSource Closed.                                      *)
(***************************************************************************)
C37_RetrySendsRequestIfIdIsHeader ==
    [][/\ C37_OpenError
       /\ C37_OpenStays
       /\ C37_ClosedStays
       /\ (es.connection_state = "Retrying" /\ es' # es) =>
              IF HeaderValue_from_str(es.last_event_id) # None
              THEN es'.requests = es.requests + 1
              ELSE /\ es'.requests = es.requests
                   /\ es'.connection_state = "Closed"
                   /\ out'[Len(out')].type = "Error"
                   /\ out'[Len(out')].e.kind = "InvalidLastEventId"]_vars

\* the first connection broke and the policy answered a delay, a second
\* request was sent and its connection broke too; this time the policy
\* answered nothing, and the next poll returned the end of the stream
W_C37 ==
    /\ es.requests = 2
    /\ Len(Retries) = 2
    /\ Retries[1].answer # None /\ Retries[2].answer = None
    /\ es.connection_state = "Closed"
    /\ out[Len(out)].type = "End"

(***************************************************************************)
(* C38.  The last_event_id of the EventSource is the id of the event it    *)
(* returned last, on whichever connection, and empty before the first.     *)
(* Requests are sent by the poll that ends a retry delay and by no other:  *)
(* if that id can be a header value the request carries it as its          *)
(* last-event-id header; if it cannot, the poll sends nothing, returns an  *)
(* InvalidLastEventId error and leaves the EventSource Closed.             *)
(***************************************************************************)
LastReturnedId ==
    IF EventIdx = {} THEN EMPTY_STR
    ELSE Ev(CHOOSE k \in EventIdx : \A j \in EventIdx : j <= k).id

C38_State == es.last_event_id = LastReturnedId

C38_Step ==
    /\ (es'.requests # es.requests \/ es'.header # es.header)
          => es.connection_state = "Retrying"
    /\ (es.connection_state = "Retrying" /\ es' # es) =>
          IF HeaderValue_from_str(LastReturnedId) # None
          THEN /\ es'.requests = es.requests + 1
               /\ es'.header = Some(LastReturnedId)
          ELSE /\ es'.requests = es.requests
               /\ es'.header = es.header
               /\ es'.connection_state = "Closed"
               /\ Len(out') = Len(out) + 1
               /\ out'[Len(out')].type = "Error"
               /\ out'[Len(out')].e.kind = "InvalidLastEventId"

C38_ReconnectCarriesLastEventId == []C38_State /\ [][C38_Step]_vars

\* the first connection gave an event with the id "1" and broke; the
\* second request carried that id, and its connection has given an event
\* without an id
W_C38 ==
    /\ es.requests = 2
    /\ es.header = Some(<<49>>)
    /\ es.connection_state = "Open"
    /\ es.last_event_id = EMPTY_STR
    /\ Cardinality(EventIdx) >= 2

(***************************************************************************)
(* C39.  The retry policy is handed no attempt the first time it is asked  *)
(* and the attempt k the k-th time, together with the delay it answered    *)
(* the time before: the number grows by one with each retry and is never   *)
(* set back.  The retry state of a connection is none before the first     *)
(* retry and is the attempt of the last retry afterwards, whether the      *)
(* connection is being made or is open and whatever events it has given.   *)
(***************************************************************************)
C39_State ==
    /\ \A k \in 1..Len(Retries) :
          Retries[k].last_retry
              = IF k = 1 THEN None
                ELSE Some(<<k, Retries[k - 1].answer[1]>>)
    /\ es.connection_state \in {"Connecting", "Open"} =>
          es.retry_state
              = IF Retries = <<>> THEN None
                ELSE Some(<<Len(Retries) + 1, Retries[Len(Retries)].answer[1]>>)
    /\ es.connection_state = "Retrying" =>
          /\ Retries # <<>>
          /\ es.attempt_number = Len(Retries)
          /\ es.delay_duration = Retries[Len(Retries)].answer[1]

C39_Step ==
    (es.connection_state = "Open" /\ es'.connection_state = "Open")
        => es'.retry_state = es.retry_state

C39_AttemptNumberGrows == []C39_State /\ [][C39_Step]_vars

\* the policy was asked a second time, with attempt 2, after the second
\* connection had been opened and had given an event
W_C39 ==
    /\ Len(Retries) = 2
    /\ Retries[2].last_retry = Some(<<2, 1>>)
    /\ OpenCount = 2
    /\ \E k \in EventIdx : k > LastOpen

(***************************************************************************)
(* C40.  A request that fails while the EventSource is connecting, for the *)
(* first time or after a retry delay, is returned as an error with the     *)
(* retry state of that connection; the poll leaves the EventSource Closed  *)
(* and does not ask the retry policy.  Nothing but the end of the stream   *)
(* is returned after it, and no request is sent.                           *)
(***************************************************************************)
RequestFailed(k) == out[k].type = "Error" /\ out[k].e.kind = "Transport"

C40_State ==
    \A k \in 1..Len(out) :
        RequestFailed(k) =>
            /\ es.connection_state = "Closed"
            /\ \A j \in (k + 1)..Len(out) : out[j].type = "End"

C40_Step ==
    /\ (Len(out') = Len(out) + 1 /\ RequestFailed(Len(out))')
          => /\ es.connection_state \in {"Connecting", "Retrying"}
             /\ es'.connection_state = "Closed"
             /\ Retries' = Retries
             /\ out'[Len(out')].e.retry_state
                   = IF es.connection_state = "Connecting" THEN es.retry_state
                     ELSE Some(<<es.attempt_number + 1, es.delay_duration>>)
    /\ (\E k \in 1..Len(out) : RequestFailed(k))
          => (es' = es /\ Len(out') <= Len(out) + 1)

C40_FailedRequestCloses == []C40_State /\ [][C40_Step]_vars

\* the first connection broke and was retried; the request of the retry
\* failed, and the poll after its error returned the end of the stream
W_C40 ==
    /\ es.requests = 2
    /\ Len(Retries) = 1
    /\ Len(out) >= 2
    /\ RequestFailed(Len(out) - 1)
    /\ out[Len(out) - 1].e.retry_state = Some(<<2, 1>>)
    /\ out[Len(out)].type = "End"

====
